---- MODULE Spec2Model ----
(***************************************************************************)
(* Model of the document question-answering system:                        *)
(*   src/vector_store.py       class VectorStore                           *)
(*   src/src/qa_system.py      class QASystem                              *)
(*   src/document_processor.py class DocumentProcessor                     *)
(*   src/src/citation_system.py class CitationSystem (extract_keywords,    *)
(*                             highlight_text, create_citation_links)      *)
(*   src/app.py                the handlers of the Streamlit session       *)
(*                                                                         *)
(* Reading of the source.  The files spell several identifiers wrongly     *)
(* (st.sucess, faiss.IndexFaltIP, score[0], "save_path m", a stray comma   *)
(* in the parameter list of save_index, ...).  The model follows the       *)
(* control flow, the assignments and their order as written and reads      *)
(* each such identifier as the name it stands for (st.success,             *)
(* faiss.IndexFlatIP, scores[0], ...).  src/qa_system.py is the text of    *)
(* src/src/qa_system.py with such misspellings; app.py puts src/src on     *)
(* the import path, and the model follows src/src/qa_system.py.            *)
(*                                                                         *)
(* External collaborators (the SentenceTransformer encoder, FAISS, the     *)
(* file system, pickle, PyPDF2, the Mistral client) are modelled by their  *)
(* contract; where a call can raise, the action takes a fault parameter    *)
(* that says so.                                                           *)
(*                                                                         *)
(* Spec         : the store used by one caller; every method call is one   *)
(*                step.                                                    *)
(* SpecConc     : build_index and similarity_search in two threads, one    *)
(*                statement per step.                                      *)
(* SpecQA       : a QASystem over an in-memory store.                      *)
(* SpecApp      : upload, question and clear-history handlers of a session.*)
(* SpecCalls    : one call of each core operation from each store and      *)
(*                snapshot-directory state.                                *)
(* SpecDocs     : process_documents on each batch of uploaded files.       *)
(* SpecKeywords : extract_keywords on each question.                       *)
(* SpecHighlight: highlight_text on each text and keyword list.            *)
(* SpecLinks    : create_citation_links on each answer and citation list.  *)
(***************************************************************************)
EXTENDS Integers, Sequences, FiniteSets, TLC

(***************************************************************************)
(* Bounds of the model.                                                    *)
(***************************************************************************)
\* longest chunk sequence handed to build_index
MaxDocs == 2
\* largest k handed to similarity_search
MaxK == 2
\* number of save_index calls in one behaviour
MaxSaves == 1
\* longest conversation history
MaxTurns == 1
\* most files in one upload
MaxFiles == 3
\* most pieces a question is put together from
MaxPieces == 3

(***************************************************************************)
(* Chunks, queries and the embedding provider.                             *)
(***************************************************************************)
\* chunk ids of the fixture: 0 "cats are mammals", 1 "dogs are mammals",
\* 2 "fish live in water", then further chunks
Chunks == 0 .. MaxDocs - 1

Queries == {"mammal", "water"}

\* the model name every store of the application is constructed with
DefaultModel == "all-MiniLM-L6-v2"

\* output dimension of the embedding model (embeddings.shape[1])
Dim(model) == 2

\* SentenceTransformer.encode on the text of a chunk (test-double vectors)
EncodeChunk(model, c) ==
  CASE c = 0 -> <<2, 0>>
    [] c = 1 -> <<0, 3>>
    [] c = 2 -> <<1, -1>>
    [] OTHER -> <<-1, 0>>

\* SentenceTransformer.encode on a query text: "mammal" is as near to
\* chunk 0 as to chunk 1 and nearer to both than to chunk 2; "water" is
\* nearest to chunk 2, then chunk 0, then chunk 1
EncodeQuery(model, q) == IF q = "mammal" THEN <<1, 1>> ELSE <<1, -2>>

(***************************************************************************)
(* Vector arithmetic.  A normalised vector v/|v| is kept exactly, as the   *)
(* primitive integer vector of its direction and that vector's squared     *)
(* length; a score d/sqrt(m) is kept as the pair (d, m).                   *)
(***************************************************************************)
RECURSIVE Gcd(_, _)
Gcd(a, b) == IF b = 0 THEN a ELSE Gcd(b, a % b)

Abs(x) == IF x < 0 THEN -x ELSE x

RECURSIVE DotUpTo(_, _, _)
DotUpTo(a, b, n) == IF n = 0 THEN 0 ELSE a[n] * b[n] + DotUpTo(a, b, n - 1)

Dot(a, b) == DotUpTo(a, b, Len(a))

RECURSIVE GcdUpTo(_, _)
GcdUpTo(v, n) == IF n = 0 THEN 0 ELSE Gcd(Abs(v[n]), GcdUpTo(v, n - 1))

\* faiss.normalize_L2 on one row: v / |v| (a zero row is left as it is)
normalize_L2(v) ==
  LET g == GcdUpTo(v, Len(v))
      p == IF g = 0 THEN v ELSE [i \in 1 .. Len(v) |-> v[i] \div g]
  IN  [v |-> p, n2 |-> Dot(p, p)]

\* inner product of two normalised vectors, the score d / sqrt(m)
InnerProduct(a, b) == [d |-> Dot(a.v, b.v), m |-> a.n2 * b.n2]

\* the score FAISS reports for a result slot it could not fill (-FLT_MAX)
MinScore == [d |-> -1, m |-> 0]

Sgn(x) == IF x < 0 THEN -1 ELSE IF x > 0 THEN 1 ELSE 0

\* s1 < s2 for scores d/sqrt(m)
ScoreLess(s1, s2) ==
  IF s1 = MinScore THEN s2 # MinScore
  ELSE IF s2 = MinScore THEN FALSE
  ELSE Sgn(s1.d) * s1.d * s1.d * s2.m < Sgn(s2.d) * s2.d * s2.d * s1.m

ScoreEq(s1, s2) == ~ScoreLess(s1, s2) /\ ~ScoreLess(s2, s1)

(***************************************************************************)
(* The FAISS index object and the files of a snapshot.                     *)
(***************************************************************************)
\* self.index = None
NoIndex == [init |-> FALSE, d |-> 0, vecs |-> <<>>]

\* faiss.IndexFlatIP(dimension): an index object holding no vector yet
IndexFlatIP(dimension) == [init |-> TRUE, d |-> dimension, vecs |-> <<>>]

\* index.add(rows): appends the rows in the order given
IndexAdd(ix, rows) == [ix EXCEPT !.vecs = ix.vecs \o rows]

\* index.ntotal
ntotal(ix) == Len(ix.vecs)

Min(a, b) == IF a < b THEN a ELSE b

\* Python's sequence[i] for a 0-based i that may be negative
PyItem(seq, i) == IF i >= 0 THEN seq[i + 1] ELSE seq[Len(seq) + i + 1]

\* score of index position p (0-based) against a normalised query
ScoreAt(ix, qn, p) == InnerProduct(qn, ix.vecs[p + 1])

\* index.search(query, k): every answer FAISS's flat inner-product search
\* may give: k slots (score, position), the min(k, ntotal) best positions
\* by descending score, then unfilled slots (-FLT_MAX, -1).  The order of
\* positions of equal score is not fixed by the library's contract.
IndexSearch(ix, qn, k) ==
  LET n == ntotal(ix)
      m == Min(k, n)
      best == { f \in [1 .. m -> 0 .. n - 1] :
                  /\ \A i, j \in 1 .. m : i # j => f[i] # f[j]
                  /\ \A i, j \in 1 .. m :
                       i < j => ~ScoreLess(ScoreAt(ix, qn, f[i]), ScoreAt(ix, qn, f[j]))
                  /\ \A p \in 0 .. n - 1 :
                       (\A i \in 1 .. m : f[i] # p) =>
                          \A i \in 1 .. m :
                             ~ScoreLess(ScoreAt(ix, qn, f[i]), ScoreAt(ix, qn, p)) }
  IN  { [i \in 1 .. k |->
           IF i <= m THEN [score |-> ScoreAt(ix, qn, f[i]), idx |-> f[i]]
                     ELSE [score |-> MinScore, idx |-> -1]] : f \in best }

\* a file of the snapshot directory: absent, unreadable (cut short by an
\* interrupted write), or the data written by save number sid; blank is
\* the value standing for "no data" in a file of that kind
NoFile(blank) == [st |-> "absent", sid |-> 0, data |-> blank]

CutFile(sid, blank) == [st |-> "corrupt", sid |-> sid, data |-> blank]

OkFile(sid, data) == [st |-> "ok", sid |-> sid, data |-> data]

NoConfig == [embedding_model_name |-> "", num_documents |-> 0]

\* the snapshot directory before anything was saved: the path does not exist
EmptyDisk ==
  [dir |-> FALSE, index |-> NoFile(NoIndex), docs |-> NoFile(<<>>),
   config |-> NoFile(NoConfig)]

(***************************************************************************)
(* VectorStore.create_embeddings                                           *)
(***************************************************************************)
\* outcome of create_embeddings(texts): "raise" when no model is loaded,
\* an empty array when encode fails, else one row per text in order
create_embeddings(embeddings, rows, encodeFails) ==
  IF ~embeddings THEN [raised |-> TRUE, called |-> FALSE, rows |-> <<>>]
  ELSE IF encodeFails THEN [raised |-> FALSE, called |-> TRUE, rows |-> <<>>]
  ELSE [raised |-> FALSE, called |-> TRUE, rows |-> rows]

\* faiss.normalize_L2 on every row of an array
NormalizeRows(rows) == [i \in 1 .. Len(rows) |-> normalize_L2(rows[i])]

(***************************************************************************)
(* VectorStore.build_index                                                 *)
(***************************************************************************)
BuildFaults == {"none", "encode", "create", "normalize", "add"}

\* build_index with the new chunk sequence stored before the emptiness test
build_index_store_first(ix, docs, embeddings, model, documents, fault) ==
  LET same == [ret |-> FALSE, index |-> ix, documents |-> docs, called |-> FALSE,
               raised |-> FALSE]
      emb  == create_embeddings(embeddings,
                 [i \in 1 .. Len(documents) |-> EncodeChunk(model, documents[i])],
                 fault = "encode")
      fresh == IndexFlatIP(Dim(model))
  IN  IF documents = <<>> THEN [same EXCEPT !.documents = documents]
      ELSE IF emb.raised THEN same
      ELSE IF emb.rows = <<>> THEN [same EXCEPT !.called = TRUE]
      ELSE IF fault = "create" THEN [same EXCEPT !.called = TRUE]
      ELSE IF fault \in {"normalize", "add"}
        THEN [ret |-> FALSE, index |-> fresh, documents |-> docs, called |-> TRUE,
              raised |-> FALSE]
      ELSE [ret |-> TRUE, index |-> IndexAdd(fresh, NormalizeRows(emb.rows)),
            documents |-> documents, called |-> TRUE, raised |-> FALSE]

\* build_index(documents) on a store holding (ix, docs): the return value
\* and the store's fields afterwards.  fault names the external call that
\* fails: "encode" (line 45), "create" (lines 71-72, before the
\* assignment to self.index), "normalize" (line 75), "add" (line 76).
build_index(ix, docs, embeddings, model, documents, fault) ==
  LET same == [ret |-> FALSE, index |-> ix, documents |-> docs, called |-> FALSE,
               raised |-> FALSE]
      emb  == create_embeddings(embeddings,
                 [i \in 1 .. Len(documents) |-> EncodeChunk(model, documents[i])],
                 fault = "encode")
      fresh == IndexFlatIP(Dim(model))
  IN  IF documents = <<>> THEN same
      ELSE IF emb.raised THEN same
      ELSE IF emb.rows = <<>> THEN [same EXCEPT !.called = TRUE]
      ELSE IF fault = "create" THEN [same EXCEPT !.called = TRUE]
      ELSE IF fault \in {"normalize", "add"}
        THEN [ret |-> FALSE, index |-> fresh, documents |-> docs, called |-> TRUE,
              raised |-> FALSE]
      ELSE [ret |-> TRUE, index |-> IndexAdd(fresh, NormalizeRows(emb.rows)),
            documents |-> documents, called |-> TRUE, raised |-> FALSE]

(***************************************************************************)
(* VectorStore.similarity_search                                           *)
(***************************************************************************)
\* lines 110-113: the result list made from the slots FAISS returned
CollectResults(docs, slots) ==
  LET keep(i) == slots[i].idx < Len(docs)
      RECURSIVE upTo(_)
      upTo(i) == IF i = 0 THEN <<>>
                 ELSE IF keep(i)
                   THEN Append(upTo(i - 1),
                          [doc |-> PyItem(docs, slots[i].idx), score |-> slots[i].score])
                   ELSE upTo(i - 1)
  IN  upTo(Len(slots))

\* similarity_search that tests only self.index against None
similarity_search_index_only(ix, docs, embeddings, model, query, k, encodeFails) ==
  LET none(c) == {[results |-> <<>>, slots |-> <<>>, called |-> c, raised |-> FALSE]}
      emb == create_embeddings(embeddings, <<EncodeQuery(model, query)>>, encodeFails)
  IN  IF ~ix.init THEN none(FALSE)
      ELSE IF emb.raised THEN none(FALSE)
      ELSE IF emb.rows = <<>> THEN none(TRUE)
      ELSE IF Len(emb.rows[1]) # ix.d THEN none(TRUE)
      ELSE IF docs = <<>> THEN none(TRUE)
      ELSE { [results |-> CollectResults(docs, sl), slots |-> sl, called |-> TRUE,
              raised |-> FALSE] :
               sl \in IndexSearch(ix, normalize_L2(emb.rows[1]), k) }

\* similarity_search(query, k): the set of possible outcomes
\* [results, slots, called]; encodeFails is a failing encode call
similarity_search(ix, docs, embeddings, model, query, k, encodeFails) ==
  LET none(c) == {[results |-> <<>>, slots |-> <<>>, called |-> c, raised |-> FALSE]}
      emb == create_embeddings(embeddings, <<EncodeQuery(model, query)>>, encodeFails)
  IN  IF ~ix.init \/ docs = <<>> THEN none(FALSE)
      ELSE IF emb.raised THEN none(FALSE)
      ELSE IF emb.rows = <<>> THEN none(TRUE)
      ELSE IF Len(emb.rows[1]) # ix.d THEN none(TRUE)
      ELSE { [results |-> CollectResults(docs, sl), slots |-> sl, called |-> TRUE,
              raised |-> FALSE] :
               sl \in IndexSearch(ix, normalize_L2(emb.rows[1]), k) }

(***************************************************************************)
(* VectorStore.save_index                                                  *)
(***************************************************************************)
\* where a save can stop: an external call raising (or the process being
\* killed) before a file is opened ("_open": the file keeps what it held)
\* or while it is being written ("_cut": the file is left unreadable)
SaveFaults ==
  {"none", "mkdir", "index_open", "index_cut", "docs_open", "docs_cut",
   "config_open", "config_cut"}

\* one file write of save number sid: [file, log, ok]
WriteFile(old, sid, data, blank, name, log, fault) ==
  IF fault = name \o "_open" THEN [file |-> old, log |-> log, ok |-> FALSE]
  ELSE IF fault = name \o "_cut"
    THEN [file |-> CutFile(sid, blank), log |-> Append(log, name), ok |-> FALSE]
  ELSE [file |-> OkFile(sid, data), log |-> Append(log, name), ok |-> TRUE]

\* save_index writing the configuration record before the two data files
save_index_config_first(ix, docs, model, dsk, sid, fault) ==
  LET config == [embedding_model_name |-> model, num_documents |-> Len(docs)]
      w1 == WriteFile(dsk.config, sid, config, NoConfig, "config", <<>>, fault)
      w2 == WriteFile(dsk.index, sid, ix, NoIndex, "index", w1.log, fault)
      w3 == WriteFile(dsk.docs, sid, docs, <<>>, "docs", w2.log, fault)
      d0 == [dsk EXCEPT !.dir = TRUE]
      d1 == [d0 EXCEPT !.config = w1.file]
      d2 == [d1 EXCEPT !.index = w2.file]
      d3 == [d2 EXCEPT !.docs = w3.file]
  IN  IF ~ix.init THEN [ret |-> FALSE, disk |-> dsk, log |-> <<>>, ran |-> FALSE,
                       raised |-> FALSE]
      ELSE IF fault = "mkdir" THEN [ret |-> FALSE, disk |-> dsk, log |-> <<>>, ran |-> TRUE,
                                    raised |-> FALSE]
      ELSE IF ~w1.ok THEN [ret |-> FALSE, disk |-> d1, log |-> w1.log, ran |-> TRUE,
                            raised |-> FALSE]
      ELSE IF ~w2.ok THEN [ret |-> FALSE, disk |-> d2, log |-> w2.log, ran |-> TRUE,
                            raised |-> FALSE]
      ELSE IF ~w3.ok THEN [ret |-> FALSE, disk |-> d3, log |-> w3.log, ran |-> TRUE,
                            raised |-> FALSE]
      ELSE [ret |-> TRUE, disk |-> d3, log |-> w3.log, ran |-> TRUE, raised |-> FALSE]

\* save_index() as save number sid: the return value, the directory
\* afterwards and the files written, in the order they were written
save_index(ix, docs, model, dsk, sid, fault) ==
  LET config == [embedding_model_name |-> model, num_documents |-> Len(docs)]
      w1 == WriteFile(dsk.index, sid, ix, NoIndex, "index", <<>>, fault)
      w2 == WriteFile(dsk.docs, sid, docs, <<>>, "docs", w1.log, fault)
      w3 == WriteFile(dsk.config, sid, config, NoConfig, "config", w2.log, fault)
      d0 == [dsk EXCEPT !.dir = TRUE]
      d1 == [d0 EXCEPT !.index = w1.file]
      d2 == [d1 EXCEPT !.docs = w2.file]
      d3 == [d2 EXCEPT !.config = w3.file]
  IN  IF ~ix.init THEN [ret |-> FALSE, disk |-> dsk, log |-> <<>>, ran |-> FALSE,
                       raised |-> FALSE]
      ELSE IF fault = "mkdir" THEN [ret |-> FALSE, disk |-> dsk, log |-> <<>>, ran |-> TRUE,
                                    raised |-> FALSE]
      ELSE IF ~w1.ok THEN [ret |-> FALSE, disk |-> d1, log |-> w1.log, ran |-> TRUE,
                            raised |-> FALSE]
      ELSE IF ~w2.ok THEN [ret |-> FALSE, disk |-> d2, log |-> w2.log, ran |-> TRUE,
                            raised |-> FALSE]
      ELSE IF ~w3.ok THEN [ret |-> FALSE, disk |-> d3, log |-> w3.log, ran |-> TRUE,
                            raised |-> FALSE]
      ELSE [ret |-> TRUE, disk |-> d3, log |-> w3.log, ran |-> TRUE, raised |-> FALSE]

(***************************************************************************)
(* VectorStore.load_index                                                  *)
(***************************************************************************)
\* load_index that restores the index file and leaves self.documents alone
load_index_index_only(ix, docs, model, dsk) ==
  LET out(r, i, d, w) ==
        [ret |-> r, index |-> i, documents |-> d, warned |-> w, raised |-> FALSE]
      ix1 == dsk.index.data
      warn == dsk.config.data.embedding_model_name # model
  IN  IF ~dsk.dir THEN out(FALSE, ix, docs, FALSE)
      ELSE IF dsk.index.st = "absent" THEN out(FALSE, ix, docs, FALSE)
      ELSE IF dsk.index.st = "corrupt" THEN out(FALSE, ix, docs, FALSE)
      ELSE IF dsk.docs.st = "absent" THEN out(FALSE, ix1, docs, FALSE)
      ELSE IF dsk.docs.st = "corrupt" THEN out(FALSE, ix1, docs, FALSE)
      ELSE IF dsk.config.st = "corrupt" THEN out(FALSE, ix1, docs, FALSE)
      ELSE IF dsk.config.st = "ok" THEN out(TRUE, ix1, docs, warn)
      ELSE out(TRUE, ix1, docs, FALSE)

\* load_index(): the return value, the store's fields afterwards and
\* whether the model-mismatch warning was shown.  Reading an unreadable
\* file raises, which the handler turns into a False return.
load_index(ix, docs, model, dsk) ==
  LET out(r, i, d, w) ==
        [ret |-> r, index |-> i, documents |-> d, warned |-> w, raised |-> FALSE]
      ix1 == dsk.index.data
      docs1 == dsk.docs.data
      warn == dsk.config.data.embedding_model_name # model
  IN  IF ~dsk.dir THEN out(FALSE, ix, docs, FALSE)
      ELSE IF dsk.index.st = "absent" THEN out(FALSE, ix, docs, FALSE)
      ELSE IF dsk.index.st = "corrupt" THEN out(FALSE, ix, docs, FALSE)
      ELSE IF dsk.docs.st = "absent" THEN out(FALSE, ix1, docs, FALSE)
      ELSE IF dsk.docs.st = "corrupt" THEN out(FALSE, ix1, docs, FALSE)
      ELSE IF dsk.config.st = "corrupt" THEN out(FALSE, ix1, docs1, FALSE)
      ELSE IF dsk.config.st = "ok" THEN out(TRUE, ix1, docs1, warn)
      ELSE out(TRUE, ix1, docs1, FALSE)

(***************************************************************************)
(* VectorStore.get_stats                                                   *)
(***************************************************************************)
\* get_stats(): the dictionary returned for a store holding (ix, docs)
get_stats(ix, docs, model) ==
  IF ~ix.init THEN [Status |-> "not_initialized"]
  ELSE [Status |-> "Initialized", num_documents |-> Len(docs), index_size |-> ntotal(ix),
        embedding_model |-> model, dimension |-> ix.d]

(***************************************************************************)
(* Chunks as the question-answering layer sees them (Document objects).    *)
(***************************************************************************)
\* doc.metadata of the fixture chunks: chunk 0 carries the metadata
\* process_documents gives a chunk, chunk 1 was made without metadata
Metadata(c) ==
  CASE c = 0 -> [source |-> "cats.pdf", chunk_id |-> 3]
    [] c = 1 -> << >>
    [] c = 2 -> [source |-> "fish.pdf", chunk_id |-> 0]
    [] OTHER -> [source |-> "fish.pdf", chunk_id |-> 1]

\* a text is kept as a sequence of runs: n times the character c
RECURSIVE TextLen(_)
TextLen(t) == IF t = <<>> THEN 0 ELSE Head(t).n + TextLen(Tail(t))

\* text[:k]
RECURSIVE TextTake(_, _)
TextTake(t, k) ==
  IF k <= 0 \/ t = <<>> THEN <<>>
  ELSE IF Head(t).n <= k THEN <<Head(t)>> \o TextTake(Tail(t), k - Head(t).n)
  ELSE <<[c |-> Head(t).c, n |-> k]>>

\* doc.page_content: chunk 0 is longer than the excerpt a citation
\* carries, the others are short
PageContent(c) ==
  IF c = 0 THEN <<[c |-> "c", n |-> 201]>> ELSE <<[c |-> "d", n |-> 3 + c]>>

\* dict.get(key, default)
MetaGet(md, key, default) == IF key \in DOMAIN md THEN md[key] ELSE default

\* floor of the square root of y, known to lie in lo .. hi
RECURSIVE IsqrtIn(_, _, _)
IsqrtIn(y, lo, hi) ==
  IF lo = hi THEN lo
  ELSE LET mid == (lo + hi + 1) \div 2
       IN  IF mid * mid <= y THEN IsqrtIn(y, mid, hi) ELSE IsqrtIn(y, lo, mid - 1)

Isqrt(y) == IsqrtIn(y, 0, 2000)

\* f"{score:.3f}": the score d/sqrt(m) rounded to thousandths, in
\* thousandths (the least integer stands for -FLT_MAX written out)
FormatScore(s) ==
  IF s = MinScore THEN -2147483647
  ELSE Sgn(s.d) * ((Isqrt((4000000 * s.d * s.d) \div s.m) + 1) \div 2)

\* the characters a citation shows of a chunk
ExcerptLen == 200

(***************************************************************************)
(* QASystem (src/src/qa_system.py; the copy src/qa_system.py is the same   *)
(* code mistyped, and is read as this one).                                *)
(***************************************************************************)
\* a question is a sequence of tokens: words and whitespace characters
IsSpace(t) == t \in {" ", "\n", "\t"}

\* str.strip()
RECURSIVE Strip(_)
Strip(q) ==
  IF q = <<>> THEN <<>>
  ELSE IF IsSpace(Head(q)) THEN Strip(Tail(q))
  ELSE IF IsSpace(q[Len(q)]) THEN Strip(SubSeq(q, 1, Len(q) - 1))
  ELSE q

\* the text of a question, as handed to the encoder
RECURSIVE Text(_)
Text(q) == IF q = <<>> THEN "" ELSE Head(q) \o Text(Tail(q))

\* no dictionary was returned
NoAnswer == [answer |-> "", sources |-> <<>>]

\* no prompt was made
NoPrompt == [kind |-> "none", question |-> <<>>, parts |-> <<>>]

\* create_context_prompt(question, relevant_docs): the prompt, as the
\* question and the labelled context parts it is made of
create_context_prompt(question, relevant_docs) ==
  IF relevant_docs = <<>>
    THEN [kind |-> "general", question |-> question, parts |-> <<>>]
    ELSE [kind |-> "context", question |-> question,
          parts |-> [j \in 1 .. Len(relevant_docs) |->
                       LET i == j - 1
                           doc == relevant_docs[j].doc
                       IN  [n |-> i + 1,
                            source |-> MetaGet(Metadata(doc), "source", "Unknown"),
                            chunk_id |-> MetaGet(Metadata(doc), "chunk_id", i),
                            relevance |-> FormatScore(relevant_docs[j].score),
                            content |-> PageContent(doc)]]]

\* self.client.chat.complete(...).choices[0].message.content (test double)
Complete(prompt) ==
  IF prompt.kind = "general" THEN "answer from general knowledge"
  ELSE "answer from the context"

\* the messages a failing language-model call raises with
LLMErrors == {"timeout", "unauthorized"}

\* the citation list numbered from 0, as enumerate counts
Citations_zero_based(relevant_docs) ==
  [j \in 1 .. Len(relevant_docs) |->
     LET i == j - 1
         doc == relevant_docs[j].doc
         content == PageContent(doc)
     IN  [source_id |-> i,
          filename |-> MetaGet(Metadata(doc), "source", "Unknown"),
          chunk_id |-> MetaGet(Metadata(doc), "chunk_id", i),
          relevance_score |-> relevant_docs[j].score,
          content |-> IF TextLen(content) > ExcerptLen
                        THEN TextTake(content, ExcerptLen) \o <<[c |-> ".", n |-> 3]>>
                        ELSE content]]

\* lines 90-98: the citation list made from the retrieval result
Citations(relevant_docs) ==
  [j \in 1 .. Len(relevant_docs) |->
     LET i == j - 1
         doc == relevant_docs[j].doc
         content == PageContent(doc)
     IN  [source_id |-> i + 1,
          filename |-> MetaGet(Metadata(doc), "source", "Unknown"),
          chunk_id |-> MetaGet(Metadata(doc), "chunk_id", i),
          relevance_score |-> relevant_docs[j].score,
          content |-> IF TextLen(content) > ExcerptLen
                        THEN TextTake(content, ExcerptLen) \o <<[c |-> ".", n |-> 3]>>
                        ELSE content]]

\* generate_answer without the try around the language-model call
generate_answer_uncaught(client, question, relevant_docs, llmError) ==
  LET prompt == create_context_prompt(question, relevant_docs)
  IN  IF ~client
        THEN [result |-> [answer |-> "Error: Mistral API client not initialized",
                          sources |-> <<>>,
                          error |-> "API client not available"],
              prompt |-> NoPrompt, llm_called |-> FALSE, raised |-> FALSE]
      ELSE IF llmError # ""
        THEN [result |-> NoAnswer,
              prompt |-> prompt, llm_called |-> TRUE, raised |-> TRUE]
      ELSE [result |-> [answer |-> Complete(prompt),
                        sources |-> Citations(relevant_docs),
                        model_used |-> "mistral-large-latest",
                        num_sources |-> Len(relevant_docs)],
            prompt |-> prompt, llm_called |-> TRUE, raised |-> FALSE]

\* generate_answer that reports a failed language-model call as an answer
generate_answer_error_as_answer(client, question, relevant_docs, llmError) ==
  LET prompt == create_context_prompt(question, relevant_docs)
  IN  IF ~client
        THEN [result |-> [answer |-> "Error: Mistral API client not initialized",
                          sources |-> <<>>,
                          error |-> "API client not available"],
              prompt |-> NoPrompt, llm_called |-> FALSE, raised |-> FALSE]
      ELSE IF llmError # ""
        THEN [result |-> [answer |-> "Error generating answer: " \o llmError,
                          sources |-> <<>>,
                          model_used |-> "mistral-large-latest",
                          num_sources |-> 0],
              prompt |-> prompt, llm_called |-> TRUE, raised |-> FALSE]
      ELSE [result |-> [answer |-> Complete(prompt),
                        sources |-> Citations(relevant_docs),
                        model_used |-> "mistral-large-latest",
                        num_sources |-> Len(relevant_docs)],
            prompt |-> prompt, llm_called |-> TRUE, raised |-> FALSE]

\* generate_answer(question, relevant_docs): the dictionary returned, the
\* prompt sent and whether the language model was called; llmError is the
\* message the language-model call raises with ("": it answers)
generate_answer(client, question, relevant_docs, llmError) ==
  LET prompt == create_context_prompt(question, relevant_docs)
  IN  IF ~client
        THEN [result |-> [answer |-> "Error: Mistral API client not initialized",
                          sources |-> <<>>,
                          error |-> "API client not available"],
              prompt |-> NoPrompt, llm_called |-> FALSE, raised |-> FALSE]
      ELSE IF llmError # ""
        THEN [result |-> [answer |-> "Error generating answer: " \o llmError,
                          sources |-> <<>>,
                          error |-> llmError],
              prompt |-> prompt, llm_called |-> TRUE, raised |-> FALSE]
      ELSE [result |-> [answer |-> Complete(prompt),
                        sources |-> Citations(relevant_docs),
                        model_used |-> "mistral-large-latest",
                        num_sources |-> Len(relevant_docs)],
            prompt |-> prompt, llm_called |-> TRUE, raised |-> FALSE]

\* answer_question that tests the question without stripping it
answer_question_unstripped(client, question, k, ix, docs, embeddings, model, encodeFails, llmError) ==
  LET out(res, rel, s, c, p, l, r) ==
        [result |-> res, retrieved |-> rel, searched |-> s, called |-> c,
         prompt |-> p, llm_called |-> l, raised |-> r]
  IN  IF question = <<>>
        THEN { out([answer |-> "Please provide a question.",
                    sources |-> <<>>,
                    error |-> "Empty question"],
                   <<>>, FALSE, FALSE, NoPrompt, FALSE, FALSE) }
      ELSE { IF sr.results = <<>>
               THEN out([answer |-> "I couldn't find any relevant information in the uploaded documents to answer your question.",
                         sources |-> <<>>,
                         error |-> "No relevant documents found"],
                        <<>>, TRUE, sr.called, NoPrompt, FALSE, FALSE)
               ELSE LET g == generate_answer(client, question, sr.results, llmError)
                    IN  out(g.result, sr.results, TRUE, sr.called, g.prompt,
                            g.llm_called, g.raised) :
             sr \in similarity_search(ix, docs, embeddings, model, Text(question),
                                      k, encodeFails) }

\* answer_question(question, vector_store, k): the set of possible
\* outcomes [result, retrieved, searched, called, prompt, llm_called, raised]
answer_question(client, question, k, ix, docs, embeddings, model, encodeFails, llmError) ==
  LET out(res, rel, s, c, p, l, r) ==
        [result |-> res, retrieved |-> rel, searched |-> s, called |-> c,
         prompt |-> p, llm_called |-> l, raised |-> r]
  IN  IF Strip(question) = <<>>
        THEN { out([answer |-> "Please provide a question.",
                    sources |-> <<>>,
                    error |-> "Empty question"],
                   <<>>, FALSE, FALSE, NoPrompt, FALSE, FALSE) }
      ELSE { IF sr.results = <<>>
               THEN out([answer |-> "I couldn't find any relevant information in the uploaded documents to answer your question.",
                         sources |-> <<>>,
                         error |-> "No relevant documents found"],
                        <<>>, TRUE, sr.called, NoPrompt, FALSE, FALSE)
               ELSE LET g == generate_answer(client, question, sr.results, llmError)
                    IN  out(g.result, sr.results, TRUE, sr.called, g.prompt,
                            g.llm_called, g.raised) :
             sr \in similarity_search(ix, docs, embeddings, model, Text(question),
                                      k, encodeFails) }

(***************************************************************************)
(* DocumentProcessor (src/document_processor.py).  A text is a sequence of *)
(* characters.  The processor of the model is constructed with a small     *)
(* chunk_size and chunk_overlap.                                           *)
(***************************************************************************)
\* DocumentProcessor(chunk_size, chunk_overlap)
chunk_size == 4
chunk_overlap == 1

\* the files a batch is made of: two readable PDFs, a PDF whose pages hold
\* only whitespace, a PDF the reader cannot open, a PDF without pages and a
\* file that is not a PDF
UploadedFiles ==
  { [name |-> "a.pdf", type |-> "application/pdf", readable |-> TRUE,
     pages |-> << <<"a", "b", " ", "c">>, <<"d", "e", "f", "g", "h", "i">> >>],
    [name |-> "b.pdf", type |-> "application/pdf", readable |-> TRUE,
     pages |-> << <<"x", "y">> >>],
    [name |-> "blank.pdf", type |-> "application/pdf", readable |-> TRUE,
     pages |-> << <<>>, <<" ">> >>],
    [name |-> "broken.pdf", type |-> "application/pdf", readable |-> FALSE,
     pages |-> <<>>],
    [name |-> "empty.pdf", type |-> "application/pdf", readable |-> TRUE,
     pages |-> <<>>],
    [name |-> "notes.txt", type |-> "text/plain", readable |-> TRUE,
     pages |-> <<>>] }

\* lines 35-37: the page texts, each followed by a newline
RECURSIVE PagesText(_)
PagesText(pages) ==
  IF pages = <<>> THEN <<>> ELSE Head(pages) \o <<"\n">> \o PagesText(Tail(pages))

\* extract_text_from_pdf with a reader failure reaching the caller
extract_text_from_pdf_uncaught(pdf_file) ==
  IF ~pdf_file.readable THEN [text |-> <<>>, raised |-> TRUE]
  ELSE [text |-> PagesText(pdf_file.pages), raised |-> FALSE]

\* extract_text_from_pdf(pdf_file): the text returned; a failure of the
\* reader is caught and gives the empty text
extract_text_from_pdf(pdf_file) ==
  IF ~pdf_file.readable THEN [text |-> <<>>, raised |-> FALSE]
  ELSE [text |-> PagesText(pdf_file.pages), raised |-> FALSE]

\* the words of a text: its maximal runs of characters other than whitespace
RECURSIVE WordsFrom(_, _)
WordsFrom(text, cur) ==
  IF text = <<>> THEN (IF cur = <<>> THEN <<>> ELSE <<cur>>)
  ELSE IF IsSpace(Head(text))
    THEN (IF cur = <<>> THEN <<>> ELSE <<cur>>) \o WordsFrom(Tail(text), <<>>)
  ELSE WordsFrom(Tail(text), Append(cur, Head(text)))

\* words joined by single spaces
RECURSIVE JoinWords(_)
JoinWords(ws) ==
  IF ws = <<>> THEN <<>>
  ELSE IF Len(ws) = 1 THEN ws[1]
  ELSE ws[1] \o <<" ">> \o JoinWords(Tail(ws))

\* a word longer than chunk_size cut into windows of chunk_size characters
\* that overlap by chunk_overlap
RECURSIVE HardCut(_)
HardCut(w) ==
  IF Len(w) <= chunk_size THEN <<w>>
  ELSE <<SubSeq(w, 1, chunk_size)>>
         \o HardCut(SubSeq(w, chunk_size - chunk_overlap + 1, Len(w)))

\* the words kept at the start of the next chunk: leading words are dropped
\* until what is left is no longer than chunk_overlap and leaves room for d
RECURSIVE Overlap(_, _)
Overlap(cur, d) ==
  IF cur = <<>> THEN <<>>
  ELSE IF Len(JoinWords(cur)) > chunk_overlap
          \/ Len(JoinWords(cur)) + 1 + Len(d) > chunk_size
    THEN Overlap(Tail(cur), d)
  ELSE cur

\* the chunks made of the words still to place and the words cur of the
\* chunk being filled
RECURSIVE SplitFrom(_, _)
SplitFrom(words, cur) ==
  IF words = <<>> THEN (IF cur = <<>> THEN <<>> ELSE <<JoinWords(cur)>>)
  ELSE LET d == Head(words)
       IN  IF Len(d) > chunk_size
             THEN (IF cur = <<>> THEN <<>> ELSE <<JoinWords(cur)>>)
                    \o HardCut(d) \o SplitFrom(Tail(words), <<>>)
           ELSE IF cur # <<>> /\ Len(JoinWords(cur)) + 1 + Len(d) > chunk_size
             THEN <<JoinWords(cur)>> \o SplitFrom(words, Overlap(cur, d))
           ELSE SplitFrom(Tail(words), Append(cur, d))

\* text_splitter.split_text (stand-in for RecursiveCharacterTextSplitter):
\* chunks of at most chunk_size characters, in the order of the text, none
\* of them empty or starting or ending with whitespace
split_text(text) == SplitFrom(WordsFrom(text, <<>>), <<>>)

\* text_splitter.split_documents: the chunks of each document in turn, each
\* with its own copy of the document's metadata
RECURSIVE split_documents(_)
split_documents(docs) ==
  IF docs = <<>> THEN <<>>
  ELSE LET parts == split_text(Head(docs).page_content)
       IN  [i \in 1 .. Len(parts) |->
              [page_content |-> parts[i], metadata |-> Head(docs).metadata]]
             \o split_documents(Tail(docs))

\* lines 50-69: the documents made of the files of the batch (raised: an
\* exception left the loop)
RECURSIVE ReadFiles(_)
ReadFiles(files) ==
  IF files = <<>> THEN [documents |-> <<>>, raised |-> FALSE]
  ELSE LET uploaded_file == Head(files)
           ex == extract_text_from_pdf(uploaded_file)
           rest == ReadFiles(Tail(files))
       IN  IF uploaded_file.type = "application/pdf"
             THEN IF ex.raised THEN [documents |-> <<>>, raised |-> TRUE]
                  ELSE IF rest.raised THEN rest
                  ELSE IF ex.text # <<>>
                    THEN [documents |->
                            <<[page_content |-> ex.text,
                               metadata |-> [source |-> uploaded_file.name,
                                             file_type |-> "pdf",
                                             file_size |-> Len(ex.text)]]>>
                              \o rest.documents,
                          raised |-> FALSE]
                  ELSE rest
             ELSE rest

\* lines 77-79 with the chunk ids counted within each source file
NumberChunks_per_source(chunked_docs) ==
  [i \in 1 .. Len(chunked_docs) |->
     LET chunk == chunked_docs[i]
         before == { j \in 1 .. i - 1 :
                       chunked_docs[j].metadata.source = chunk.metadata.source }
     IN  [page_content |-> chunk.page_content,
          metadata |-> [source |-> chunk.metadata.source,
                        file_type |-> chunk.metadata.file_type,
                        file_size |-> chunk.metadata.file_size,
                        chunk_id |-> Cardinality(before),
                        chunk_size |-> Len(chunk.page_content)]]]

\* lines 77-79: chunk_id and chunk_size added to the metadata of each chunk
NumberChunks(chunked_docs) ==
  [j \in 1 .. Len(chunked_docs) |->
     LET i == j - 1
         chunk == chunked_docs[j]
     IN  [page_content |-> chunk.page_content,
          metadata |-> [source |-> chunk.metadata.source,
                        file_type |-> chunk.metadata.file_type,
                        file_size |-> chunk.metadata.file_size,
                        chunk_id |-> i,
                        chunk_size |-> Len(chunk.page_content)]]]

\* process_documents(uploaded_files): the chunk list returned
process_documents(uploaded_files) ==
  LET read == ReadFiles(uploaded_files)
  IN  IF read.raised THEN [chunks |-> <<>>, raised |-> TRUE]
      ELSE IF read.documents # <<>>
        THEN [chunks |-> NumberChunks(split_documents(read.documents)), raised |-> FALSE]
      ELSE [chunks |-> <<>>, raised |-> FALSE]

(***************************************************************************)
(* CitationSystem.extract_keywords (src/src/citation_system.py).  A        *)
(* question is a sequence of characters.                                   *)
(***************************************************************************)
UpperCase ==
  <<"A", "B", "C", "D", "E", "F", "G", "H", "I", "J", "K", "L", "M",
    "N", "O", "P", "Q", "R", "S", "T", "U", "V", "W", "X", "Y", "Z">>

LowerCase ==
  <<"a", "b", "c", "d", "e", "f", "g", "h", "i", "j", "k", "l", "m",
    "n", "o", "p", "q", "r", "s", "t", "u", "v", "w", "x", "y", "z">>

Digits == {"0", "1", "2", "3", "4", "5", "6", "7", "8", "9"}

\* str.lower() on one character and on a text
LowerChar(ch) ==
  IF \E i \in 1 .. 26 : UpperCase[i] = ch
    THEN LowerCase[CHOOSE i \in 1 .. 26 : UpperCase[i] = ch]
    ELSE ch

Lower(text) == [i \in 1 .. Len(text) |-> LowerChar(text[i])]

\* a character the pattern \w matches
IsWordChar(ch) ==
  \/ \E i \in 1 .. 26 : UpperCase[i] = ch \/ LowerCase[i] = ch
  \/ ch \in Digits
  \/ ch = "_"

\* re.findall(r'\b\w+\b', text): the maximal runs of word characters, in
\* the order they stand in the text
RECURSIVE FindWords(_, _)
FindWords(text, cur) ==
  IF text = <<>> THEN (IF cur = <<>> THEN <<>> ELSE <<cur>>)
  ELSE IF IsWordChar(Head(text)) THEN FindWords(Tail(text), Append(cur, Head(text)))
  ELSE (IF cur = <<>> THEN <<>> ELSE <<cur>>) \o FindWords(Tail(text), <<>>)

\* lines 17-24
stop_words ==
  { <<"w", "h", "a", "t">>, <<"w", "h", "e", "n">>, <<"w", "h", "e", "r", "e">>,
    <<"w", "h", "o">>, <<"w", "h", "y">>, <<"h", "o", "w">>, <<"i", "s">>,
    <<"a", "r", "e">>, <<"w", "a", "s">>, <<"w", "e", "r", "e">>, <<"t", "h", "e">>,
    <<"a">>, <<"a", "n">>, <<"a", "n", "d">>, <<"o", "r">>, <<"b", "u", "t">>,
    <<"i", "n">>, <<"o", "n">>, <<"a", "t">>, <<"t", "o">>, <<"f", "o", "r">>,
    <<"o", "f">>, <<"w", "i", "t", "h">>, <<"b", "y">>, <<"f", "r", "o", "m">>,
    <<"u", "p">>, <<"a", "b", "o", "u", "t">>, <<"i", "n", "t", "o">>,
    <<"t", "h", "r", "o", "u", "g", "h">>, <<"d", "u", "r", "i", "n", "g">>,
    <<"b", "e", "f", "o", "r", "e">>, <<"a", "f", "t", "e", "r">>,
    <<"a", "b", "o", "v", "e">>, <<"b", "e", "l", "o", "w">>,
    <<"b", "e", "t", "w", "e", "e", "n">>, <<"a", "m", "o", "n", "g">>,
    <<"c", "a", "n">>, <<"c", "o", "u", "l", "d">>, <<"s", "h", "o", "u", "l", "d">>,
    <<"w", "o", "u", "l", "d">>, <<"w", "i", "l", "l">>, <<"s", "h", "a", "l", "l">>,
    <<"m", "a", "y">>, <<"m", "i", "g", "h", "t">>, <<"m", "u", "s", "t">>,
    <<"d", "o">>, <<"d", "o", "e", "s">>, <<"d", "i", "d">>, <<"h", "a", "v", "e">>,
    <<"h", "a", "s">>, <<"h", "a", "d">>, <<"b", "e">>, <<"b", "e", "e", "n">>,
    <<"b", "e", "i", "n", "g">> }

\* the words shorter than this are dropped (len(word) > 2)
IsKeyword(word) == word \notin stop_words /\ Len(word) > 2

\* extract_keywords(question): the list returned
extract_keywords(q) == SelectSeq(FindWords(Lower(q), <<>>), IsKeyword)

(***************************************************************************)
(* CitationSystem.highlight_text and CitationSystem.create_citation_links  *)
(* (src/src/citation_system.py).  Texts, keywords and the markup the two   *)
(* methods insert are sequences of characters.                             *)
(***************************************************************************)
\* self.highlight_color and self.citation_color
highlight_color == <<"#", "f", "f", "e", "b", "3", "b">>

citation_color == <<"#", "2", "1", "9", "6", "f", "3">>

\* the opening and the closing tag of line 48
MarkOpen ==
  <<"<", "m", "a", "r", "k", " ", "s", "t", "y", "l", "e", "=", "\"", "b",
    "a", "c", "k", "g", "r", "o", "u", "n", "d", "-", "c", "o", "l", "o",
    "r", ":", " ">>
    \o highlight_color \o
  <<";", " ", "p", "a", "d", "d", "i", "n", "g", ":", " ", "2", "p", "x",
    " ", "4", "p", "x", ";", " ", "b", "o", "r", "d", "e", "r", "-", "r",
    "a", "d", "i", "u", "s", ":", " ", "3", "p", "x", ";", "\"", ">">>

MarkClose == <<"<", "/", "m", "a", "r", "k", ">">>

\* the least element of a non-empty set of positions
First(ps) == CHOOSE p \in ps : \A q \in ps : p <= q

\* re.IGNORECASE on the characters of the model: the pattern kw (a literal,
\* by re.escape) matches the text at position i in any letter case
MatchesAt(text, i, kw) ==
  /\ i + Len(kw) - 1 <= Len(text)
  /\ \A j \in 1 .. Len(kw) : LowerChar(text[i + j - 1]) = LowerChar(kw[j])

\* pattern.sub(repl, text) from position i on: the matches are taken from
\* left to right and do not overlap; the empty pattern matches before each
\* character and at the end
RECURSIVE Sub(_, _, _, _)
Sub(text, i, kw, repl) ==
  IF kw = <<>>
    THEN IF i > Len(text) THEN repl
         ELSE repl \o <<text[i]>> \o Sub(text, i + 1, kw, repl)
  ELSE LET at == { p \in i .. Len(text) - Len(kw) + 1 : MatchesAt(text, p, kw) }
       IN  IF at = {} THEN SubSeq(text, i, Len(text))
           ELSE SubSeq(text, i, First(at) - 1) \o repl
                  \o Sub(text, First(at) + Len(kw), kw, repl)

\* line 42: sorted(keywords, key=len, reverse=True); the sort is stable, so
\* keywords of one length keep the order of the list
RECURSIVE sorted_keywords(_)
sorted_keywords(keywords) ==
  IF keywords = <<>> THEN <<>>
  ELSE LET front == sorted_keywords(SubSeq(keywords, 1, Len(keywords) - 1))
           last == keywords[Len(keywords)]
           n == Cardinality({ i \in 1 .. Len(front) : Len(front[i]) >= Len(last) })
       IN  SubSeq(front, 1, n) \o <<last>> \o SubSeq(front, n + 1, Len(front))

\* lines 44-50: one substitution for each keyword, each on the text the
\* substitutions before it produced; the replacement holds the keyword as
\* it stands in the list
RECURSIVE HighlightEach(_, _)
HighlightEach(highlighted_text, kws) ==
  IF kws = <<>> THEN highlighted_text
  ELSE HighlightEach(Sub(highlighted_text, 1, Head(kws),
                         MarkOpen \o Head(kws) \o MarkClose),
                     Tail(kws))

\* highlight_text(text, keywords)
highlight_text(text, keywords) ==
  IF keywords = <<>> THEN text
  ELSE HighlightEach(text, sorted_keywords(keywords))

\* a character the pattern \s matches
IsSpaceChar(ch) == ch \in {" ", "\n", "\t", "\r"}

\* the end of the longest run of characters of the class from position i on
\* (i - 1 when text[i] is not of the class)
RECURSIVE RunEnd(_, _, _)
RunEnd(text, i, digits) ==
  IF i <= Len(text) /\ (IF digits THEN text[i] \in Digits ELSE IsSpaceChar(text[i]))
    THEN RunEnd(text, i + 1, digits)
    ELSE i - 1

\* the pattern \b between position i - 1 and position i
WordBoundary(text, i) ==
  LET before == i > 1 /\ IsWordChar(text[i - 1])
      after == i <= Len(text) /\ IsWordChar(text[i])
  IN  before # after

\* line 97: r'\b[Ss]ource\s+(\d+)\b' tried at position i: the span of the
\* match and of its group, or no match
citation_pattern(text, i) ==
  LET ws == RunEnd(text, i + 6, FALSE)
      ds == RunEnd(text, ws + 1, TRUE)
  IN  IF /\ i + 5 <= Len(text)
         /\ WordBoundary(text, i)
         /\ text[i] \in {"S", "s"}
         /\ SubSeq(text, i + 1, i + 5) = <<"o", "u", "r", "c", "e">>
         /\ ws >= i + 6
         /\ ds >= ws + 1
         /\ WordBoundary(text, ds + 1)
        THEN [found |-> TRUE, last |-> ds, group |-> SubSeq(text, ws + 1, ds)]
        ELSE [found |-> FALSE, last |-> 0, group |-> <<>>]

\* str(int(digits)): the digits without their leading zeros
RECURSIVE IntStr(_)
IntStr(digits) ==
  IF Len(digits) > 1 /\ Head(digits) = "0" THEN IntStr(Tail(digits)) ELSE digits

\* lines 99-101: replace_citation, for the digits of group 1
replace_citation(group) ==
  <<"<", "a", " ", "h", "r", "e", "f", "=", "\"", "#", "s", "o", "u", "r",
    "c", "e", "-">>
    \o IntStr(group) \o
  <<"\"", " ", "s", "t", "y", "l", "e", "=", "\"", "c", "o", "l", "o", "r",
    ":", " ">>
    \o citation_color \o
  <<";", " ", "t", "e", "x", "t", "-", "d", "e", "c", "o", "r", "a", "t",
    "i", "o", "n", ":", " ", "n", "o", "n", "e", ";", " ", "f", "o", "n",
    "t", "-", "w", "e", "i", "g", "h", "t", ":", " ", "b", "o", "l", "d",
    ";", "\"", ">", "[", "S", "o", "u", "r", "c", "e", " ">>
    \o IntStr(group) \o
  <<"]", "<", "/", "a", ">">>

\* line 103: re.sub(citation_pattern, replace_citation, answer), from
\* position i on
RECURSIVE SubCitations(_, _)
SubCitations(answer, i) ==
  IF i > Len(answer) THEN <<>>
  ELSE LET m == citation_pattern(answer, i)
       IN  IF m.found
             THEN replace_citation(m.group) \o SubCitations(answer, m.last + 1)
             ELSE <<answer[i]>> \o SubCitations(answer, i + 1)

\* create_citation_links(answer, sources)
create_citation_links(answer, sources) ==
  IF sources = <<>> THEN answer ELSE SubCitations(answer, 1)

(***************************************************************************)
(* State.                                                                  *)
(***************************************************************************)
VARIABLES
  embedding_model_name,  \* self.embedding_model_name
  embeddings,            \* self.embeddings is a loaded model (FALSE: None)
  index,                 \* self.index
  documents,             \* self.documents
  disk,                  \* the snapshot directory self.vector_store_path
  saves,                 \* number of save_index calls that reached the disk
  lastOp,                \* the operation that ran last
  ret,                   \* its return value (for a search: results # [])
  results,               \* result list of the last similarity_search
  called,                \* the last operation called the encoder
  log,                   \* files written by the last save_index, in order
  warned,                \* the last load_index showed the mismatch warning
  exc,                   \* the last operation let an exception reach its caller
  good,                  \* chunk sequence of the last build/load that returned True
  bpc,                   \* where a build_index running in its own thread stands
  b_docs,                \* its argument
  spc,                   \* where a similarity_search running in its own thread stands
  s_arg,                 \* its arguments (query, k)
  s_slots,               \* what its index.search call returned
  seen,                  \* the self.index and self.documents it has read
  committed,             \* the (index, chunk sequence) pairs builds have started from or completed
  client,                \* QASystem.client is a Mistral client (FALSE: None)
  qa_op,                 \* the QASystem operation that ran last
  question,              \* its question
  retrieved,             \* the retrieval result it worked on
  searched,              \* it called vector_store.similarity_search
  prompt,                \* the prompt it made
  llm_called,            \* it called the language model
  llm_error,             \* the message that call raised with ("": none)
  result,                \* the dictionary it returned
  documents_processed,   \* st.session_state.documents_processed
  conversation_history,  \* st.session_state.conversation_history
  shown,                 \* what the last run of qa_section rendered
  uploaded_files,        \* the batch handed to process_documents
  dp_op,                 \* "process" once process_documents has run on it
  chunked_docs,          \* the chunk list it returned
  dp_raised,             \* it let an exception reach its caller
  kw_question,           \* the question handed to extract_keywords
  kw_op,                 \* "extract" once extract_keywords has run on it
  keywords,              \* the list it returned
  hl_text,               \* the text handed to highlight_text
  hl_keywords,           \* the keyword list handed to it
  hl_op,                 \* "highlight" once highlight_text has run on them
  highlighted,           \* the text it returned
  cl_answer,             \* the answer handed to create_citation_links
  cl_sources,            \* the citation list handed to it
  cl_op,                 \* "link" once create_citation_links has run on them
  cited_answer           \* the text it returned

\* no QASystem operation has returned
NoResult == NoAnswer

\* a store, a QASystem and a session on which nothing has been called
NothingCalled ==
  /\ embedding_model_name = DefaultModel
  /\ lastOp = "init"
  /\ ret = FALSE
  /\ results = <<>>
  /\ called = FALSE
  /\ log = <<>>
  /\ warned = FALSE
  /\ exc = FALSE
  /\ good = <<>>
  /\ bpc = "idle"
  /\ b_docs = <<>>
  /\ spc = "idle"
  /\ s_arg = [query |-> "", k |-> 0]
  /\ s_slots = <<>>
  /\ seen = [index |-> NoIndex, documents |-> <<>>]
  /\ committed = {[index |-> NoIndex, documents |-> <<>>]}
  /\ qa_op = "none"
  /\ question = <<>>
  /\ retrieved = <<>>
  /\ searched = FALSE
  /\ prompt = NoPrompt
  /\ llm_called = FALSE
  /\ llm_error = ""
  /\ result = NoResult
  /\ documents_processed = FALSE
  /\ conversation_history = <<>>
  /\ shown = "none"

\* no question has been handed to the citation system
KeywordsIdle ==
  /\ kw_question = <<>>
  /\ kw_op = "none"
  /\ keywords = <<>>

\* no text has been handed to highlight_text
HighlightIdle ==
  /\ hl_text = <<>>
  /\ hl_keywords = <<>>
  /\ hl_op = "none"
  /\ highlighted = <<>>

\* no answer has been handed to create_citation_links
LinksIdle ==
  /\ cl_answer = <<>>
  /\ cl_sources = <<>>
  /\ cl_op = "none"
  /\ cited_answer = <<>>

\* no batch has been handed to the document processor
DocsIdle ==
  /\ uploaded_files = <<>>
  /\ dp_op = "none"
  /\ chunked_docs = <<>>
  /\ dp_raised = FALSE

\* the variables of the two-thread view of build_index and similarity_search
cvars == <<bpc, b_docs, spc, s_arg, s_slots, seen, committed>>

\* the variables of the question-answering layer
qavars ==
  <<client, qa_op, question, retrieved, searched, prompt, llm_called, llm_error, result>>

\* the session state of the application
appvars == <<documents_processed, conversation_history, shown>>

\* the variables of the document processor
dpvars == <<uploaded_files, dp_op, chunked_docs, dp_raised>>

\* the variables of the citation system
kwvars == <<kw_question, kw_op, keywords>>

\* the variables of highlight_text and of create_citation_links
hlvars == <<hl_text, hl_keywords, hl_op, highlighted>>

clvars == <<cl_answer, cl_sources, cl_op, cited_answer>>

\* the variables of the components that do not touch the store
ovars == <<dpvars, kwvars, hlvars, clvars>>

\* the variables outside the vector store
xvars == <<qavars, appvars, ovars>>

vars ==
  <<embedding_model_name, embeddings, index, documents, disk, saves, lastOp,
    ret, results, called, log, warned, exc, good, cvars, xvars>>

\* a VectorStore method called by itself: no QASystem operation has run
\* since, and the QASystem object is left alone
QAIdle ==
  /\ qa_op' = "none"
  /\ question' = <<>>
  /\ retrieved' = <<>>
  /\ searched' = FALSE
  /\ prompt' = NoPrompt
  /\ llm_called' = FALSE
  /\ llm_error' = ""
  /\ result' = NoResult
  /\ UNCHANGED <<client, appvars, ovars>>

\* the chunk sequences handed to build_index: the first n chunks of the
\* fixture in order, and the whole fixture in reverse order
DocSeqs ==
  { [i \in 1 .. n |-> i - 1] : n \in 0 .. MaxDocs } \cup { [i \in 1 .. MaxDocs |-> MaxDocs - i] }

\* VectorStore.__init__ (app.py constructs it with the default model name)
\* before any snapshot was saved; loading the model may have failed
Init ==
  /\ embeddings \in BOOLEAN
  /\ index = NoIndex
  /\ documents = <<>>
  /\ disk = EmptyDisk
  /\ saves = 0
  /\ client = FALSE
  /\ NothingCalled
  /\ DocsIdle
  /\ KeywordsIdle
  /\ HighlightIdle
  /\ LinksIdle

\* a new VectorStore() in a new process: the snapshot directory stays
Construct ==
  \E loaded \in BOOLEAN :
    /\ embedding_model_name' = DefaultModel
    /\ embeddings' = loaded
    /\ index' = NoIndex
    /\ documents' = <<>>
    /\ lastOp' = "init"
    /\ ret' = FALSE
    /\ results' = <<>>
    /\ called' = FALSE
    /\ log' = <<>>
    /\ warned' = FALSE
    /\ exc' = FALSE
    /\ good' = <<>>
    /\ UNCHANGED <<disk, saves, cvars>>
    /\ QAIdle

\* build_index(docs) with the given fault
BuildWith(docs, fault) ==
  LET r == build_index(index, documents, embeddings, embedding_model_name, docs, fault)
  IN  /\ index' = r.index
      /\ documents' = r.documents
      /\ lastOp' = "build"
      /\ ret' = r.ret
      /\ called' = r.called
      /\ exc' = r.raised
      /\ good' = IF r.ret THEN r.documents ELSE good
      /\ results' = <<>>
      /\ log' = <<>>
      /\ warned' = FALSE
      /\ UNCHANGED <<embedding_model_name, embeddings, disk, saves, cvars>>
      /\ QAIdle

BuildIndex == \E docs \in DocSeqs, fault \in BuildFaults : BuildWith(docs, fault)

\* similarity_search(query, k)
SearchWith(query, k, encodeFails) ==
  \E r \in similarity_search(index, documents, embeddings, embedding_model_name,
                             query, k, encodeFails) :
    /\ results' = r.results
    /\ called' = r.called
    /\ exc' = r.raised
    /\ lastOp' = "search"
    /\ ret' = (r.results # <<>>)
    /\ log' = <<>>
    /\ warned' = FALSE
    /\ UNCHANGED <<embedding_model_name, embeddings, index, documents, disk, saves, good, cvars>>
    /\ QAIdle

SimilaritySearch ==
  \E query \in Queries, k \in 1 .. MaxK, encodeFails \in BOOLEAN :
    SearchWith(query, k, encodeFails)

SaveIndex ==
  /\ saves < MaxSaves
  /\ \E fault \in SaveFaults :
       LET r == save_index(index, documents, embedding_model_name, disk, saves + 1, fault)
       IN  /\ disk' = r.disk
           /\ saves' = IF r.ran THEN saves + 1 ELSE saves
           /\ log' = r.log
           /\ ret' = r.ret
           /\ exc' = r.raised
           /\ lastOp' = "save"
           /\ results' = <<>>
           /\ called' = FALSE
           /\ warned' = FALSE
           /\ UNCHANGED <<embedding_model_name, embeddings, index, documents, good, cvars>>
           /\ QAIdle

LoadIndex ==
  LET r == load_index(index, documents, embedding_model_name, disk)
  IN  /\ index' = r.index
      /\ documents' = r.documents
      /\ warned' = r.warned
      /\ ret' = r.ret
      /\ exc' = r.raised
      /\ lastOp' = "load"
      /\ good' = IF r.ret THEN r.documents ELSE good
      /\ results' = <<>>
      /\ called' = FALSE
      /\ log' = <<>>
      /\ UNCHANGED <<embedding_model_name, embeddings, disk, saves, cvars>>
      /\ QAIdle

Next ==
  \/ Construct
  \/ BuildIndex
  \/ SimilaritySearch
  \/ SaveIndex
  \/ LoadIndex

Spec == Init /\ [][Next]_vars

(***************************************************************************)
(* build_index and similarity_search running in two threads on one store.  *)
(* Neither method takes a lock; a thread switch can fall between any two   *)
(* statements.  Each action below is one statement (or a run of statements *)
(* touching only locals); the result loop of lines 111-113 is taken as one *)
(* step.                                                                   *)
(***************************************************************************)
\* the variables the two-thread steps leave alone
seqvars ==
  <<embedding_model_name, embeddings, disk, saves, lastOp, ret, called, log, warned, exc, good,
    xvars>>

\* lines 55-68: the emptiness test and the embedding of the chunks
BuildEmbed ==
  /\ bpc = "idle"
  /\ \E docs \in DocSeqs, encodeFails \in BOOLEAN :
       LET emb == create_embeddings(embeddings,
                     [i \in 1 .. Len(docs) |-> EncodeChunk(embedding_model_name, docs[i])],
                     encodeFails)
       IN  /\ b_docs' = docs
           /\ bpc' = IF docs = <<>> \/ emb.raised \/ emb.rows = <<>> THEN "idle" ELSE "embedded"
  /\ committed' = committed \cup {[index |-> index, documents |-> documents]}
  /\ UNCHANGED <<index, documents, results, spc, s_arg, s_slots, seen, seqvars>>

\* lines 71-72: self.index = faiss.IndexFlatIP(dimension)
BuildCreate ==
  /\ bpc = "embedded"
  /\ index' = IndexFlatIP(Dim(embedding_model_name))
  /\ bpc' = "created"
  /\ UNCHANGED <<documents, results, b_docs, spc, s_arg, s_slots, seen, committed, seqvars>>

\* lines 75-76: normalize_L2 and self.index.add(embeddings)
BuildAdd ==
  /\ bpc = "created"
  /\ index' = IndexAdd(index,
                 NormalizeRows([i \in 1 .. Len(b_docs) |->
                                  EncodeChunk(embedding_model_name, b_docs[i])]))
  /\ bpc' = "added"
  /\ UNCHANGED <<documents, results, b_docs, spc, s_arg, s_slots, seen, committed, seqvars>>

\* lines 79-82: self.documents = documents; return True
BuildStore ==
  /\ bpc = "added"
  /\ documents' = b_docs
  /\ bpc' = "idle"
  /\ committed' = committed \cup {[index |-> index, documents |-> b_docs]}
  /\ UNCHANGED <<index, results, b_docs, spc, s_arg, s_slots, seen, seqvars>>

\* line 93: the test of self.index and self.documents
SearchCheck ==
  /\ spc \in {"idle", "done"}
  /\ \E query \in Queries, k \in 1 .. MaxK : s_arg' = [query |-> query, k |-> k]
  /\ spc' = IF ~index.init \/ documents = <<>> THEN "idle" ELSE "checked"
  /\ results' = <<>>
  /\ s_slots' = <<>>
  /\ seen' = [index |-> NoIndex, documents |-> <<>>]
  /\ UNCHANGED <<index, documents, bpc, b_docs, committed, seqvars>>

\* lines 99-107: the query embedding and scores, indices = self.index.search(...)
SearchIndex ==
  /\ spc = "checked"
  /\ \E encodeFails \in BOOLEAN :
       LET emb == create_embeddings(embeddings,
                     <<EncodeQuery(embedding_model_name, s_arg.query)>>, encodeFails)
       IN  IF emb.raised \/ emb.rows = <<>>
             THEN /\ spc' = "idle"
                  /\ UNCHANGED <<s_slots, seen>>
             ELSE /\ s_slots' \in IndexSearch(index, normalize_L2(emb.rows[1]), s_arg.k)
                  /\ seen' = [seen EXCEPT !.index = index]
                  /\ spc' = "searched"
  /\ UNCHANGED <<index, documents, results, bpc, b_docs, s_arg, committed, seqvars>>

\* lines 110-115: the result list read from self.documents
SearchCollect ==
  /\ spc = "searched"
  /\ results' = CollectResults(documents, s_slots)
  /\ seen' = [seen EXCEPT !.documents = documents]
  /\ spc' = "done"
  /\ UNCHANGED <<index, documents, bpc, b_docs, s_arg, s_slots, committed, seqvars>>

NextConc ==
  \/ BuildEmbed
  \/ BuildCreate
  \/ BuildAdd
  \/ BuildStore
  \/ SearchCheck
  \/ SearchIndex
  \/ SearchCollect

SpecConc == Init /\ [][NextConc]_vars

(***************************************************************************)
(* The question-answering layer on top of the store: QASystem.__init__,    *)
(* generate_answer and answer_question, called as test_system.py and       *)
(* app.py call them, between calls of the VectorStore methods.             *)
(***************************************************************************)
\* the questions asked: none, whitespace only, and one about each subject
Questions ==
  { <<>>, <<" ">>, <<"\n", "\t">>, <<"mammal">>, <<" ", "water", "\n">> }

\* the retrieval results a caller can hold for the store as it is
RetrievalResults ==
  {<<>>} \cup
  { sr.results :
      sr \in UNION { similarity_search(index, documents, TRUE, embedding_model_name,
                                       query, k, FALSE) :
                       query \in Queries, k \in 1 .. MaxK } }

\* what a QASystem operation leaves of the store's last-operation record:
\* the search it made, if it made one
StoreSeen(didSearch, found, encoderCalled) ==
  /\ lastOp' = IF didSearch THEN "search" ELSE "none"
  /\ ret' = (found # <<>>)
  /\ results' = found
  /\ called' = encoderCalled
  /\ log' = <<>>
  /\ warned' = FALSE
  /\ UNCHANGED <<embedding_model_name, embeddings, index, documents, disk, saves, good,
                 cvars>>

\* QASystem(api_key): the client exists when a key is given and the
\* Mistral constructor does not raise
QAConstruct ==
  \E haveKey \in BOOLEAN, ctorFails \in BOOLEAN :
    /\ client' = (haveKey /\ ~ctorFails)
    /\ qa_op' = "init"
    /\ question' = <<>>
    /\ retrieved' = <<>>
    /\ searched' = FALSE
    /\ prompt' = NoPrompt
    /\ llm_called' = FALSE
    /\ llm_error' = ""
    /\ result' = NoResult
    /\ exc' = FALSE
    /\ StoreSeen(FALSE, <<>>, FALSE)
    /\ UNCHANGED <<appvars, ovars>>

\* generate_answer(q, relevant_docs) called directly
GenerateAnswer ==
  \E q \in Questions, relevant_docs \in RetrievalResults, llmError \in LLMErrors \cup {""} :
    LET g == generate_answer(client, q, relevant_docs, llmError)
    IN  /\ qa_op' = "generate"
        /\ question' = q
        /\ retrieved' = relevant_docs
        /\ searched' = FALSE
        /\ prompt' = g.prompt
        /\ llm_called' = g.llm_called
        /\ llm_error' = IF g.llm_called THEN llmError ELSE ""
        /\ result' = g.result
        /\ exc' = g.raised
        /\ StoreSeen(FALSE, <<>>, FALSE)
        /\ UNCHANGED <<client, appvars, ovars>>

\* answer_question(q, vector_store, k)
AnswerQuestion ==
  \E q \in Questions, k \in 1 .. MaxK, encodeFails \in BOOLEAN,
     llmError \in LLMErrors \cup {""} :
    \E a \in answer_question(client, q, k, index, documents, embeddings,
                             embedding_model_name, encodeFails, llmError) :
      /\ qa_op' = "answer"
      /\ question' = q
      /\ retrieved' = a.retrieved
      /\ searched' = a.searched
      /\ prompt' = a.prompt
      /\ llm_called' = a.llm_called
      /\ llm_error' = IF a.llm_called THEN llmError ELSE ""
      /\ result' = a.result
      /\ exc' = a.raised
      /\ StoreSeen(a.searched, a.retrieved, a.called)
      /\ UNCHANGED <<client, appvars, ovars>>

NextQA ==
  \/ Construct
  \/ BuildIndex
  \/ SimilaritySearch
  \/ QAConstruct
  \/ GenerateAnswer
  \/ AnswerQuestion

SpecQA == Init /\ [][NextQA]_vars

(***************************************************************************)
(* The application (src/app.py): the upload handler, the question handler  *)
(* and the history button, on the store and the QASystem of the session.   *)
(* The Save Index and Load Index buttons are left out of this view.        *)
(***************************************************************************)
\* document_upload_section, "Process Documents" pressed, for uploads from
\* which process_documents made the chunk sequence docs (not empty)
UploadDocuments ==
  \E docs \in DocSeqs \ {<<>>}, fault \in BuildFaults :
    LET r == build_index(index, documents, embeddings, embedding_model_name, docs, fault)
    IN  /\ index' = r.index
        /\ documents' = r.documents
        /\ lastOp' = "build"
        /\ ret' = r.ret
        /\ called' = r.called
        /\ exc' = r.raised
        /\ good' = IF r.ret THEN r.documents ELSE good
        /\ results' = <<>>
        /\ log' = <<>>
        /\ warned' = FALSE
        /\ documents_processed' = (documents_processed \/ r.ret)
        /\ shown' = "none"
        /\ qa_op' = "none"
        /\ question' = <<>>
        /\ retrieved' = <<>>
        /\ searched' = FALSE
        /\ prompt' = NoPrompt
        /\ llm_called' = FALSE
        /\ llm_error' = ""
        /\ result' = NoResult
        /\ UNCHANGED <<embedding_model_name, embeddings, disk, saves, cvars, client,
                       conversation_history, ovars>>

\* a test of line 240 that takes every result for an answer
NoErrorIn_every_result(res) == "answer" \in DOMAIN res

\* line 240: 'error' not in result
NoErrorIn(res) == "error" \notin DOMAIN res

\* qa_section, "Ask Question" pressed with the question q typed in (the
\* entry's timestamp is left out).  Line 231: with a blank question the
\* run renders the form and nothing else.
AskQuestion ==
  /\ documents_processed
  /\ Len(conversation_history) < MaxTurns
  /\ \E q \in Questions, k \in 1 .. MaxK, encodeFails \in BOOLEAN,
        llmError \in LLMErrors \cup {""} :
       IF Strip(q) = <<>>
         THEN /\ shown' = "form"
              /\ qa_op' = "none"
              /\ question' = q
              /\ retrieved' = <<>>
              /\ searched' = FALSE
              /\ prompt' = NoPrompt
              /\ llm_called' = FALSE
              /\ llm_error' = ""
              /\ result' = NoResult
              /\ exc' = FALSE
              /\ StoreSeen(FALSE, <<>>, FALSE)
              /\ UNCHANGED <<client, documents_processed, conversation_history, ovars>>
         ELSE \E a \in answer_question(client, q, k, index, documents, embeddings,
                                       embedding_model_name, encodeFails, llmError) :
                /\ qa_op' = "ask"
                /\ question' = q
                /\ retrieved' = a.retrieved
                /\ searched' = a.searched
                /\ prompt' = a.prompt
                /\ llm_called' = a.llm_called
                /\ llm_error' = IF a.llm_called THEN llmError ELSE ""
                /\ result' = a.result
                /\ exc' = a.raised
                /\ StoreSeen(a.searched, a.retrieved, a.called)
                /\ IF NoErrorIn(a.result)
                     THEN /\ shown' = "answer"
                          /\ conversation_history' =
                               Append(conversation_history,
                                      [question |-> q, answer |-> a.result.answer,
                                       sources |-> a.result.sources])
                     ELSE /\ shown' = "error"
                          /\ UNCHANGED conversation_history
                /\ UNCHANGED <<client, documents_processed, ovars>>

\* display_sidebar, "Clear Conversation History" pressed
ClearHistory ==
  /\ conversation_history' = <<>>
  /\ shown' = "none"
  /\ qa_op' = "none"
  /\ question' = <<>>
  /\ retrieved' = <<>>
  /\ searched' = FALSE
  /\ prompt' = NoPrompt
  /\ llm_called' = FALSE
  /\ llm_error' = ""
  /\ result' = NoResult
  /\ exc' = FALSE
  /\ StoreSeen(FALSE, <<>>, FALSE)
  /\ UNCHANGED <<client, documents_processed, ovars>>

NextApp ==
  \/ QAConstruct
  \/ UploadDocuments
  \/ AskQuestion
  \/ ClearHistory

SpecApp == Init /\ [][NextApp]_vars

(***************************************************************************)
(* One call of each core operation (build_index, similarity_search,        *)
(* save_index, load_index, generate_answer, answer_question) on each       *)
(* state of a store and its snapshot directory that a build and a save     *)
(* leave behind, with and without an encoder and a client.                 *)
(***************************************************************************)
\* the fields of a store after the constructor and after one build_index
StoreStates ==
  LET fresh == [index |-> NoIndex, documents |-> <<>>]
  IN  {fresh} \cup
      { [index |-> r.index, documents |-> r.documents] :
          r \in { build_index(NoIndex, <<>>, TRUE, DefaultModel, docs, fault) :
                    docs \in DocSeqs, fault \in BuildFaults } }

\* the snapshot directory before a save and after one save_index of such a
\* store
DiskStates ==
  {EmptyDisk} \cup
  { save_index(st.index, st.documents, DefaultModel, EmptyDisk, 1, fault).disk :
      st \in StoreStates, fault \in SaveFaults }

InitCalls ==
  /\ embeddings \in BOOLEAN
  /\ \E st \in StoreStates : index = st.index /\ documents = st.documents
  /\ disk \in DiskStates
  /\ saves = IF disk = EmptyDisk THEN 0 ELSE 1
  /\ client \in BOOLEAN
  /\ NothingCalled
  /\ DocsIdle
  /\ KeywordsIdle
  /\ HighlightIdle
  /\ LinksIdle

\* no operation has been called yet
Uncalled == lastOp = "init" /\ qa_op = "none"

CallBuildIndex == Uncalled /\ BuildIndex

CallSimilaritySearch == Uncalled /\ SimilaritySearch

CallSaveIndex == Uncalled /\ SaveIndex

CallLoadIndex == Uncalled /\ LoadIndex

CallGenerateAnswer == Uncalled /\ GenerateAnswer

CallAnswerQuestion == Uncalled /\ AnswerQuestion

NextCalls ==
  \/ CallBuildIndex
  \/ CallSimilaritySearch
  \/ CallSaveIndex
  \/ CallLoadIndex
  \/ CallGenerateAnswer
  \/ CallAnswerQuestion

SpecCalls == InitCalls /\ [][NextCalls]_vars

(***************************************************************************)
(* process_documents applied to each batch of at most MaxFiles files.      *)
(***************************************************************************)
\* the batches: every sequence of at most MaxFiles of the files
Batches == UNION { [1 .. n -> UploadedFiles] : n \in 0 .. MaxFiles }

\* the store and the question-answering layer as constructed
StoreVars ==
  <<embedding_model_name, embeddings, index, documents, disk, saves, lastOp,
    ret, results, called, log, warned, exc, good, cvars, qavars, appvars>>

InitDocs ==
  /\ embeddings = TRUE
  /\ index = NoIndex
  /\ documents = <<>>
  /\ disk = EmptyDisk
  /\ saves = 0
  /\ client = FALSE
  /\ NothingCalled
  /\ uploaded_files \in Batches
  /\ dp_op = "none"
  /\ chunked_docs = <<>>
  /\ dp_raised = FALSE
  /\ KeywordsIdle
  /\ HighlightIdle
  /\ LinksIdle

\* process_documents(uploaded_files)
ProcessDocuments ==
  /\ dp_op = "none"
  /\ LET r == process_documents(uploaded_files)
     IN  /\ chunked_docs' = r.chunks
         /\ dp_raised' = r.raised
  /\ dp_op' = "process"
  /\ UNCHANGED <<uploaded_files, StoreVars, kwvars, hlvars, clvars>>

NextDocs == ProcessDocuments

SpecDocs == InitDocs /\ [][NextDocs]_vars

(***************************************************************************)
(* extract_keywords applied to each question put together from at most     *)
(* MaxPieces pieces, and to the question of test_system.py.                *)
(***************************************************************************)
\* the pieces: words in the stop list, short words, other words, with
\* capitals, a digit and an underscore, whitespace and punctuation
Pieces ==
  { <<"W", "h", "a", "t">>, <<"i", "s">>, <<"c", "a", "t">>, <<"C", "A", "T", "s">>,
    <<"a", "i">>, <<"_", "1">>, <<" ">>, <<"?">> }

RECURSIVE Concat(_)
Concat(ps) == IF ps = <<>> THEN <<>> ELSE Head(ps) \o Concat(Tail(ps))

\* "What is artificial intelligence?"
ExampleQuestion ==
  <<"W", "h", "a", "t", " ", "i", "s", " ", "a", "r", "t", "i", "f", "i", "c", "i",
    "a", "l", " ", "i", "n", "t", "e", "l", "l", "i", "g", "e", "n", "c", "e", "?">>

KeywordQuestions ==
  { Concat(ps) : ps \in UNION { [1 .. n -> Pieces] : n \in 0 .. MaxPieces } }
    \cup {ExampleQuestion}

InitKeywords ==
  /\ embeddings = TRUE
  /\ index = NoIndex
  /\ documents = <<>>
  /\ disk = EmptyDisk
  /\ saves = 0
  /\ client = FALSE
  /\ NothingCalled
  /\ DocsIdle
  /\ kw_question \in KeywordQuestions
  /\ kw_op = "none"
  /\ keywords = <<>>
  /\ HighlightIdle
  /\ LinksIdle

\* extract_keywords(kw_question)
ExtractKeywords ==
  /\ kw_op = "none"
  /\ keywords' = extract_keywords(kw_question)
  /\ kw_op' = "extract"
  /\ UNCHANGED <<kw_question, StoreVars, dpvars, hlvars, clvars>>

NextKeywords == ExtractKeywords

SpecKeywords == InitKeywords /\ [][NextKeywords]_vars

(***************************************************************************)
(* highlight_text applied to each text put together from at most           *)
(* MaxPieces pieces and to the text of test_system.py, with each of the    *)
(* keyword lists below.                                                    *)
(***************************************************************************)
\* the pieces: a word with a capital, a word that holds another, a word of
\* the inserted tag, and a space
HighlightPieces ==
  { <<"C", "a", "t">>, <<"c", "a", "t", "s">>, <<"m", "a", "r", "k">>, <<" ">> }

\* "Artificial intelligence is amazing"
ExampleText ==
  <<"A", "r", "t", "i", "f", "i", "c", "i", "a", "l", " ", "i", "n", "t",
    "e", "l", "l", "i", "g", "e", "n", "c", "e", " ", "i", "s", " ", "a",
    "m", "a", "z", "i", "n", "g">>

HighlightTexts ==
  { Concat(ps) : ps \in UNION { [1 .. n -> HighlightPieces] : n \in 0 .. MaxPieces } }
    \cup {ExampleText}

\* the keyword lists: none, one keyword, a keyword and a longer one that
\* holds it in either order, one keyword twice, a keyword and a word of
\* the inserted tag, and the list of test_system.py
KeywordLists ==
  { <<>>,
    <<<<"c", "a", "t">>>>,
    <<<<"c", "a", "t">>, <<"c", "a", "t", "s">>>>,
    <<<<"c", "a", "t", "s">>, <<"c", "a", "t">>>>,
    <<<<"c", "a", "t">>, <<"c", "a", "t">>>>,
    <<<<"c", "a", "t", "s">>, <<"m", "a", "r", "k">>>>,
    <<<<"a", "r", "t", "i", "f", "i", "c", "i", "a", "l">>,
      <<"i", "n", "t", "e", "l", "l", "i", "g", "e", "n", "c", "e">>>> }

InitHighlight ==
  /\ embeddings = TRUE
  /\ index = NoIndex
  /\ documents = <<>>
  /\ disk = EmptyDisk
  /\ saves = 0
  /\ client = FALSE
  /\ NothingCalled
  /\ DocsIdle
  /\ KeywordsIdle
  /\ hl_text \in HighlightTexts
  /\ hl_keywords \in KeywordLists
  /\ hl_op = "none"
  /\ highlighted = <<>>
  /\ LinksIdle

\* highlight_text(hl_text, hl_keywords)
HighlightText ==
  /\ hl_op = "none"
  /\ highlighted' = highlight_text(hl_text, hl_keywords)
  /\ hl_op' = "highlight"
  /\ UNCHANGED <<hl_text, hl_keywords, StoreVars, dpvars, kwvars, clvars>>

NextHighlight == HighlightText

SpecHighlight == InitHighlight /\ [][NextHighlight]_vars

(***************************************************************************)
(* create_citation_links applied to each answer put together from at most  *)
(* MaxPieces pieces, with no, one and two citations.                       *)
(***************************************************************************)
\* the pieces: the word in three spellings, whitespace, numbers (one with a
\* leading zero) and a letter
AnswerPieces ==
  { <<"S", "o", "u", "r", "c", "e">>,
    <<"s", "o", "u", "r", "c", "e">>,
    <<"S", "O", "U", "R", "C", "E">>,
    <<" ">>, <<"\n">>, <<"1">>, <<"0", "5">>, <<"a">> }

\* the citation lists generate_answer makes of no, one and two chunks
SourceLists ==
  { Citations(rd) :
      rd \in { <<>>,
               <<[doc |-> 0, score |-> [d |-> 1, m |-> 1]]>>,
               <<[doc |-> 0, score |-> [d |-> 1, m |-> 1]],
                 [doc |-> 1, score |-> [d |-> 0, m |-> 1]]>> } }

Answers ==
  { Concat(ps) : ps \in UNION { [1 .. n -> AnswerPieces] : n \in 0 .. MaxPieces } }

InitLinks ==
  /\ embeddings = TRUE
  /\ index = NoIndex
  /\ documents = <<>>
  /\ disk = EmptyDisk
  /\ saves = 0
  /\ client = FALSE
  /\ NothingCalled
  /\ DocsIdle
  /\ KeywordsIdle
  /\ HighlightIdle
  /\ cl_answer \in Answers
  /\ cl_sources \in SourceLists
  /\ cl_op = "none"
  /\ cited_answer = <<>>

\* create_citation_links(cl_answer, cl_sources)
CreateCitationLinks ==
  /\ cl_op = "none"
  /\ cited_answer' = create_citation_links(cl_answer, cl_sources)
  /\ cl_op' = "link"
  /\ UNCHANGED <<cl_answer, cl_sources, StoreVars, dpvars, kwvars, hlvars>>

NextLinks == CreateCitationLinks

SpecLinks == InitLinks /\ [][NextLinks]_vars

(***************************************************************************)
(* Properties of the vector store.                                         *)
(***************************************************************************)
Range(seq) == { seq[i] : i \in 1 .. Len(seq) }

\* the vector the index must hold for a chunk
VectorOf(c) == normalize_L2(EncodeChunk(embedding_model_name, c))

\* C1: in every reachable state the index holds as many vectors as there
\* are chunks in the chunk sequence, and index position i holds the vector
\* of chunk sequence position i.
C1_Lockstep ==
  /\ ntotal(index) = Len(documents)
  /\ \A i \in 1 .. Len(documents) : index.vecs[i] = VectorOf(documents[i])

\* C2: a build_index that returns failure leaves the index and the chunk
\* sequence as they were before the call.
C2_FailedBuildKeepsState ==
  [][(lastOp' = "build" /\ ~ret') => (index' = index /\ documents' = documents)]_vars

\* C3: build_index with an empty chunk sequence returns failure and leaves
\* the index and the chunk sequence unchanged.
C3_EmptyBuildFails ==
  [][\A fault \in BuildFaults :
       BuildWith(<<>>, fault) =>
         (~ret' /\ index' = index /\ documents' = documents)]_vars

\* an empty build has run on a store that held a searchable index (with a
\* loaded model, only the emptiness test fails without calling the encoder)
C3_Witness ==
  /\ lastOp = "build" /\ ~ret /\ ~called /\ embeddings
  /\ index.init /\ documents # <<>> /\ C1_Lockstep

\* C4: a similarity_search that runs while build_index runs on the same
\* store reads an index and a chunk sequence that belong together: the
\* pair a build started from or the pair a build completed.
C4_SearchSeesOneIndex == spc = "done" => seen \in committed

\* C5: every similarity_search(q, k) returns at most k results, and every
\* returned chunk belongs to the chunk sequence of the last build_index or
\* load_index that returned success.
C5_SearchWithinLastGoodIndex ==
  [][\A query \in Queries, k \in 1 .. MaxK, encodeFails \in BOOLEAN :
       SearchWith(query, k, encodeFails) =>
         /\ Len(results') <= k
         /\ \A i \in 1 .. Len(results') : results'[i].doc \in Range(good)]_vars

\* positions 0 .. n-1 of the index by descending score, equal scores in
\* insertion order: the first m of them
RECURSIVE RankedFrom(_, _, _, _)
RankedFrom(ix, qn, left, m) ==
  IF m = 0 \/ left = {} THEN <<>>
  ELSE LET p == CHOOSE x \in left :
                  \A y \in left \ {x} :
                     \/ ScoreLess(ScoreAt(ix, qn, y), ScoreAt(ix, qn, x))
                     \/ ScoreEq(ScoreAt(ix, qn, y), ScoreAt(ix, qn, x)) /\ x < y
       IN  <<p>> \o RankedFrom(ix, qn, left \ {p}, m - 1)

Ranked(ix, qn, k) == RankedFrom(ix, qn, 0 .. ntotal(ix) - 1, k)

\* C6: a similarity_search(q, k) that reaches the index returns the k
\* chunks of highest similarity (all of them when there are fewer than k),
\* by descending score, chunks of equal score in insertion order.
C6_TopKInInsertionOrder ==
  [][\A query \in Queries, k \in 1 .. MaxK :
       (SearchWith(query, k, FALSE) /\ embeddings /\ index.init /\ documents # <<>>) =>
         LET qn == normalize_L2(EncodeQuery(embedding_model_name, query))
             want == Ranked(index, qn, k)
         IN  results' = [i \in 1 .. Len(want) |->
                           [doc |-> PyItem(documents, want[i]),
                            score |-> ScoreAt(index, qn, want[i])]]]_vars

\* C7: similarity_search on a store without an index, or with an empty
\* chunk sequence, returns the empty list, does not call the encoder and
\* changes nothing in the store.
C7_SearchOnEmptyStore ==
  [][(lastOp' = "search" /\ (~index.init \/ documents = <<>>)) =>
       /\ results' = <<>>
       /\ ~called'
       /\ index' = index /\ documents' = documents /\ disk' = disk]_vars

\* a search has run on a store whose index exists but whose chunk sequence
\* is empty, with the encoder available
C7_Witness ==
  lastOp = "search" /\ index.init /\ documents = <<>> /\ embeddings /\ results = <<>>

\* C8: load_index returns success only if the configuration record is
\* present and the index file and the chunk-sequence file were written by
\* the same save as that record.
C8_LoadNeedsCompleteSnapshot ==
  (lastOp = "load" /\ ret) =>
     /\ disk.config.st = "ok"
     /\ disk.index.sid = disk.config.sid
     /\ disk.docs.sid = disk.config.sid

\* C9: save_index writes the configuration record only after it has
\* written both the index file and the chunk-sequence file.
C9_ConfigWrittenLast ==
  \A i \in 1 .. Len(log) :
     log[i] = "config" =>
        /\ \E j \in 1 .. i - 1 : log[j] = "index"
        /\ \E j \in 1 .. i - 1 : log[j] = "docs"

\* a save_index has written the configuration record
C9_Witness == lastOp = "save" /\ "config" \in Range(log)

\* C10: a load_index that returns failure leaves the in-memory index and
\* chunk sequence as they were before the call.
C10_FailedLoadKeepsState ==
  [][(lastOp' = "load" /\ ~ret') => (index' = index /\ documents' = documents)]_vars

\* the three files of the snapshot directory are readable and were written
\* by one save_index
SnapshotIntact ==
  /\ disk.index.st = "ok" /\ disk.docs.st = "ok" /\ disk.config.st = "ok"
  /\ disk.index.sid = disk.config.sid /\ disk.docs.sid = disk.config.sid

\* C11: a save_index that returns success leaves a snapshot holding the
\* store's index and chunk sequence, and a load_index of such a snapshot
\* on a newly constructed store (same embedding model) returns success and
\* gives the new store the statistics of the saved one and, with the model
\* loaded, the same search results for every query and k.
C11_SaveLoadRoundTrip ==
  [][/\ (lastOp' = "save" /\ ret') =>
          /\ SnapshotIntact'
          /\ disk'.config.sid = saves'
          /\ disk'.index.data = index /\ disk'.docs.data = documents
          /\ index' = index /\ documents' = documents
     /\ (lastOp' = "load" /\ lastOp = "init" /\ SnapshotIntact) =>
          /\ ret'
          /\ get_stats(index', documents', embedding_model_name')
               = get_stats(disk.index.data, disk.docs.data, embedding_model_name)
          /\ \A query \in Queries, k \in 1 .. MaxK, encodeFails \in BOOLEAN :
               similarity_search(index', documents', TRUE, embedding_model_name',
                                 query, k, encodeFails)
                 = similarity_search(disk.index.data, disk.docs.data, TRUE,
                                     embedding_model_name, query, k, encodeFails)]_vars

\* a store constructed after the save has loaded the snapshot of a fully
\* built index of at least two chunks
C11_Witness ==
  /\ lastOp = "load" /\ ret /\ SnapshotIntact
  /\ index = disk.index.data /\ documents = disk.docs.data /\ good = documents
  /\ Len(documents) >= 2 /\ C1_Lockstep /\ embeddings

\* C23: a similarity_search(q, k) that reaches an index holding n chunks
\* (one vector for each chunk of the chunk sequence) returns exactly
\* min(k, n) results, and no chunk of the store appears twice among them:
\* the slots index.search leaves unfilled (position -1) give no result.
C23_SearchReturnsMinKN ==
  [][\A query \in Queries, k \in 1 .. MaxK :
       (/\ SearchWith(query, k, FALSE)
        /\ embeddings /\ index.init /\ documents # <<>>
        /\ ntotal(index) = Len(documents)) =>
         /\ Len(results') = Min(k, ntotal(index))
         /\ \A i, j \in 1 .. Len(results') :
              i # j => results'[i].doc # results'[j].doc]_vars

\* C12: get_stats reports "not initialized" until a build_index or a
\* load_index has returned success, and whenever it reports "initialized"
\* its num_documents is the number of vectors in the index.
C12_StatsFollowSuccess ==
  [][LET before == get_stats(index, documents, embedding_model_name)
         after == get_stats(index', documents', embedding_model_name')
     IN  /\ (before.Status = "not_initialized" /\ after.Status = "Initialized") =>
               (lastOp' \in {"build", "load"} /\ ret')
         /\ after.Status = "Initialized" => after.num_documents = after.index_size]_vars

(***************************************************************************)
(* Properties of the question-answering layer.                             *)
(***************************************************************************)
\* C13: answer_question with an empty or whitespace-only question returns
\* a failure dictionary with the reason "Empty question" and no citation,
\* and calls neither the vector store's search nor the language model.
C13_EmptyQuestionRefused ==
  (qa_op = "answer" /\ Strip(question) = <<>>) =>
     /\ "error" \in DOMAIN result
     /\ result.error = "Empty question"
     /\ result.sources = <<>>
     /\ ~searched /\ lastOp # "search" /\ ~called
     /\ ~llm_called /\ prompt = NoPrompt

\* a whitespace-only question was put to a QASystem with a client, on a
\* store that holds a searchable index and a loaded encoder
C13_Witness ==
  /\ qa_op = "answer" /\ question # <<>> /\ Strip(question) = <<>>
  /\ client /\ embeddings /\ index.init /\ documents # <<>>

C16_AnswersWithoutContext ==
  (qa_op = "answer" /\ Strip(question) # <<>> /\ client /\ searched /\ retrieved = <<>>) =>
     /\ llm_called
     /\ prompt.kind = "general"
     /\ llm_error = "" => ("error" \notin DOMAIN result /\ result.sources = <<>>)

\* C15: without a client generate_answer returns a failure dictionary (an
\* error reason, no citation) and does not call the language model; when
\* the language-model call fails it returns a failure dictionary carrying
\* the message of that failure and no citation; and qa_section shows every
\* such result as an error and does not add it to the history.
C15_GenerationFailureIsAnError ==
  [][qa_op' = "ask" =>
       /\ (searched' /\ retrieved' # <<>> /\ ~client') =>
             /\ "error" \in DOMAIN result'
             /\ result'.error = "API client not available"
             /\ result'.sources = <<>>
             /\ ~llm_called'
       /\ (llm_called' /\ llm_error' # "") =>
             /\ "error" \in DOMAIN result'
             /\ result'.error = llm_error'
             /\ result'.sources = <<>>
       /\ "error" \in DOMAIN result' =>
             /\ shown' = "error"
             /\ conversation_history' = conversation_history]_vars

\* a question was asked whose retrieval succeeded and whose language-model
\* call failed, and it was shown as an error
C15_Witness ==
  /\ qa_op = "ask" /\ retrieved # <<>> /\ client
  /\ llm_called /\ llm_error # "" /\ shown = "error"

\* C24: in the application, a run of qa_section appends a turn to the
\* conversation history exactly when answer_question returned a dictionary
\* without an error field: a blank question, an empty retrieval, a missing
\* client and a failed language-model call leave the history as it was,
\* and a successful answer appends one turn holding that question, that
\* answer and that citation list.
C24_HistoryGrowsOnSuccessOnly ==
  [][/\ qa_op' = "ask" =>
          IF "error" \in DOMAIN result'
            THEN conversation_history' = conversation_history
            ELSE conversation_history' =
                   Append(conversation_history,
                          [question |-> question', answer |-> result'.answer,
                           sources |-> result'.sources])
     /\ shown' = "form" => conversation_history' = conversation_history
     /\ (qa_op' = "ask" /\ searched' /\ retrieved' = <<>>) =>
          conversation_history' = conversation_history
     /\ (qa_op' = "ask" /\ ~client') =>
          conversation_history' = conversation_history
     /\ (qa_op' = "ask" /\ llm_called' /\ llm_error' # "") =>
          conversation_history' = conversation_history
     /\ Len(conversation_history') > Len(conversation_history) =>
          /\ qa_op' = "ask" /\ shown' = "answer"
          /\ "error" \notin DOMAIN result'
          /\ Len(conversation_history') = Len(conversation_history) + 1]_vars

\* a question was answered from two retrieved chunks and its turn is the
\* one entry of the history
C24_Witness ==
  /\ qa_op = "ask" /\ shown = "answer" /\ "error" \notin DOMAIN result
  /\ Len(retrieved) = 2 /\ llm_called /\ llm_error = ""
  /\ conversation_history =
       <<[question |-> question, answer |-> result.answer, sources |-> result.sources]>>
  /\ Len(result.sources) = 2

\* C19: build_index, similarity_search, save_index, load_index,
\* generate_answer and answer_question let no exception reach their caller
\* when the encoder or the language model is missing or fails: the failure
\* comes back as False, as an empty list or as a dictionary with an error
\* reason.
C19_FailuresAreValues ==
  /\ ~exc
  /\ (lastOp = "build" /\ ~embeddings) => ~ret
  /\ (lastOp = "search" /\ ~embeddings) => results = <<>>
  /\ (llm_called /\ llm_error # "") => "error" \in DOMAIN result
  /\ (qa_op \in {"generate", "answer"} /\ ~client /\ (retrieved # <<>> \/ ~searched)
        /\ (qa_op = "answer" => searched)) =>
       "error" \in DOMAIN result

\* answer_question has run on a searchable store with a client whose
\* language-model call failed
C19_Witness ==
  /\ qa_op = "answer" /\ retrieved # <<>> /\ client
  /\ llm_called /\ llm_error # "" /\ ~exc /\ "error" \in DOMAIN result

(***************************************************************************)
(* Properties of the document processor.                                   *)
(***************************************************************************)
\* C17: in every chunk list process_documents returns, the k-th chunk
\* (counted from 0 across all source files) has chunk_id k and chunk_size
\* the length of its content; so the ids are unique and increase strictly.
C17_ChunkIdsFollowPosition ==
  dp_op = "process" =>
     /\ \A k \in 1 .. Len(chunked_docs) :
          /\ chunked_docs[k].metadata.chunk_id = k - 1
          /\ chunked_docs[k].metadata.chunk_size = Len(chunked_docs[k].page_content)
     /\ \A j, k \in 1 .. Len(chunked_docs) :
          j < k => chunked_docs[j].metadata.chunk_id < chunked_docs[k].metadata.chunk_id

\* a batch of two readable files was processed into chunks of different
\* lengths, several of them from the second file
C17_Witness ==
  /\ dp_op = "process" /\ Len(chunked_docs) >= 4
  /\ chunked_docs[1].metadata.source # chunked_docs[Len(chunked_docs)].metadata.source
  /\ chunked_docs[Len(chunked_docs)].metadata.source
       = chunked_docs[Len(chunked_docs) - 1].metadata.source
  /\ \E j, k \in 1 .. Len(chunked_docs) :
       chunked_docs[j].metadata.chunk_size # chunked_docs[k].metadata.chunk_size

\* the file yields chunks: a PDF the reader opens, with text that is not
\* only whitespace
Yields(f) ==
  /\ f.type = "application/pdf"
  /\ f.readable
  /\ \E i \in 1 .. Len(f.pages) : \E c \in 1 .. Len(f.pages[i]) : ~IsSpace(f.pages[i][c])

\* C18: a file whose text extraction fails, or gives an empty or
\* whitespace-only text, adds no chunk and does not end the batch: the
\* chunk list is the one the other files of the batch give, wherever the
\* failing file stands.
C18_FailingFileIsSkipped ==
  dp_op = "process" =>
     /\ ~dp_raised
     /\ chunked_docs = process_documents(SelectSeq(uploaded_files, Yields)).chunks
     /\ \A k \in 1 .. Len(chunked_docs) :
          \E i \in 1 .. Len(uploaded_files) :
             /\ Yields(uploaded_files[i])
             /\ uploaded_files[i].name = chunked_docs[k].metadata.source
     /\ \A i \in 1 .. Len(uploaded_files) :
          Yields(uploaded_files[i]) =>
             \E k \in 1 .. Len(chunked_docs) :
                chunked_docs[k].metadata.source = uploaded_files[i].name

\* a batch whose first file cannot be read and whose second file holds only
\* whitespace was processed, and its third file gave chunks
C18_Witness ==
  /\ dp_op = "process" /\ Len(uploaded_files) = 3
  /\ ~uploaded_files[1].readable
  /\ uploaded_files[2].readable /\ uploaded_files[2].pages # <<>> /\ ~Yields(uploaded_files[2])
  /\ Yields(uploaded_files[3])
  /\ chunked_docs # <<>>

(***************************************************************************)
(* Properties of the citation system.                                      *)
(***************************************************************************)
\* C20: extract_keywords returns, without duplicates, exactly the words of
\* the lowercased question that are not stop words and are longer than two
\* characters; for "What is artificial intelligence?" it returns
\* "artificial" and "intelligence" and neither "what" nor "is".
C20_KeywordsAreASet ==
  kw_op = "extract" =>
     /\ Range(keywords)
          = { w \in Range(FindWords(Lower(kw_question), <<>>)) :
                w \notin stop_words /\ Len(w) > 2 }
     /\ \A i, j \in 1 .. Len(keywords) : i # j => keywords[i] # keywords[j]
     /\ kw_question = ExampleQuestion =>
          /\ SubSeq(ExampleQuestion, 9, 18) \in Range(keywords)
          /\ SubSeq(ExampleQuestion, 20, 31) \in Range(keywords)
          /\ <<"w", "h", "a", "t">> \notin Range(keywords)
          /\ <<"i", "s">> \notin Range(keywords)

\* the text has the pattern at position i, letter for letter
ExactAt(text, i, pat) ==
  /\ i + Len(pat) - 1 <= Len(text)
  /\ SubSeq(text, i, i + Len(pat) - 1) = pat

\* the text without the occurrences of a tag, from position i on
RECURSIVE Without(_, _, _)
Without(text, i, tag) ==
  LET at == { p \in i .. Len(text) - Len(tag) + 1 : ExactAt(text, p, tag) }
  IN  IF at = {} THEN SubSeq(text, i, Len(text))
      ELSE SubSeq(text, i, First(at) - 1) \o Without(text, First(at) + Len(tag), tag)

\* where the opening and the closing tags of a highlighted text stand
OpenAt(out) == { p \in 1 .. Len(out) : ExactAt(out, p, MarkOpen) }

CloseAt(out) == { p \in 1 .. Len(out) : ExactAt(out, p, MarkClose) }

\* every opening tag is followed by a closing tag and every closing tag
\* comes after an opening tag, with no tag between the two: the spans are
\* complete, and none lies inside another
SpansPaired(out) ==
  LET tags == OpenAt(out) \cup CloseAt(out)
      next(a, b) == a < b /\ \A t \in tags : ~(a < t /\ t < b)
  IN  /\ \A o \in OpenAt(out) : \E c \in CloseAt(out) : next(o, c)
      /\ \A c \in CloseAt(out) : \E o \in OpenAt(out) : next(o, c)

\* the first and the last position of what the span opened at o wraps
SpanFirst(o) == o + Len(MarkOpen)

SpanLast(out, o) == First({ c \in CloseAt(out) : c > o }) - 1

\* two texts that differ in letter case only
SameFolded(a, b) == Len(a) = Len(b) /\ MatchesAt(a, 1, b)

\* the number of occurrences of a keyword in a text, in any letter case,
\* counted from left to right without overlap
RECURSIVE Occurrences(_, _, _)
Occurrences(text, i, kw) ==
  LET at == { p \in i .. Len(text) - Len(kw) + 1 : MatchesAt(text, p, kw) }
  IN  IF at = {} THEN 0 ELSE 1 + Occurrences(text, First(at) + Len(kw), kw)

\* C21: highlight_text wraps each occurrence of each keyword, in any letter
\* case, in exactly one highlight span: the spans are complete and not
\* nested, each wraps one keyword, no keyword is left outside a span, each
\* occurrence of a keyword longer than all the others is one span of its
\* own, and two different keywords of which neither holds the other, each
\* occurring once, give exactly two spans.
C21_EachOccurrenceInOneSpan ==
  hl_op = "highlight" =>
     LET out == highlighted
         kws == Range(hl_keywords)
         inTag(p, n) ==
           \/ \E t \in OpenAt(out) : t <= p /\ p + n <= t + Len(MarkOpen)
           \/ \E t \in CloseAt(out) : t <= p /\ p + n <= t + Len(MarkClose)
         inSpan(p, n) ==
           \E o \in OpenAt(out) : SpanFirst(o) <= p /\ p + n - 1 <= SpanLast(out, o)
         holds(a, b) == \E p \in 1 .. Len(a) : MatchesAt(a, p, b)
     IN  /\ SpansPaired(out)
         /\ \A o \in OpenAt(out) :
              \E kw \in kws : SameFolded(SubSeq(out, SpanFirst(o), SpanLast(out, o)), kw)
         /\ \A kw \in kws \ {<<>>} : \A p \in 1 .. Len(out) :
              MatchesAt(out, p, kw) => (inSpan(p, Len(kw)) \/ inTag(p, Len(kw)))
         /\ \A kw \in kws :
              (\A other \in kws \ {kw} : Len(other) < Len(kw)) =>
                 Cardinality({ o \in OpenAt(out) :
                                 SameFolded(SubSeq(out, SpanFirst(o), SpanLast(out, o)), kw) })
                   = Occurrences(hl_text, 1, kw)
         /\ (/\ Len(hl_keywords) = 2
             /\ ~holds(hl_keywords[1], hl_keywords[2])
             /\ ~holds(hl_keywords[2], hl_keywords[1])
             /\ \A kw \in kws : Occurrences(hl_text, 1, kw) = 1) =>
              Cardinality(OpenAt(out)) = 2

\* C25: highlight_text only adds markup: the text it returns, without the
\* tags of the highlight spans, is the text it was given, character for
\* character; with an empty keyword list it returns the text it was given.
C25_HighlightOnlyAddsMarkup ==
  hl_op = "highlight" =>
     /\ Without(Without(highlighted, 1, MarkOpen), 1, MarkClose) = hl_text
     /\ hl_keywords = <<>> => highlighted = hl_text

\* "Source <N>" in any letter case at position i: the word between word
\* boundaries, whitespace, and a number that ends at a word boundary
SourceRefAt(text, i) ==
  LET ws == RunEnd(text, i + 6, FALSE)
      ds == RunEnd(text, ws + 1, TRUE)
  IN  IF /\ i + 5 <= Len(text)
         /\ WordBoundary(text, i)
         /\ MatchesAt(text, i, <<"s", "o", "u", "r", "c", "e">>)
         /\ ws >= i + 6
         /\ ds >= ws + 1
         /\ WordBoundary(text, ds + 1)
        THEN [found |-> TRUE, last |-> ds, group |-> SubSeq(text, ws + 1, ds)]
        ELSE [found |-> FALSE, last |-> 0, group |-> <<>>]

\* the answer in which every such reference is the link to its citation
RECURSIVE AllLinked(_, _)
AllLinked(answer, i) ==
  IF i > Len(answer) THEN <<>>
  ELSE LET m == SourceRefAt(answer, i)
       IN  IF m.found
             THEN replace_citation(m.group) \o AllLinked(answer, m.last + 1)
             ELSE <<answer[i]>> \o AllLinked(answer, i + 1)

\* C22: create_citation_links rewrites every "Source <N>" of the answer,
\* in any letter case, into the link to citation N, whatever N is and
\* however many citations it is given (a number beyond the citation list
\* is rewritten all the same).
C22_EveryReferenceIsLinked ==
  cl_op = "link" => cited_answer = AllLinked(cl_answer, 1)

====
